---- MODULE Spec2Model ----
(***************************************************************************)
(* A model of the GraphQL-to-QCode select compiler                         *)
(* (core/internal/qcode/qcode.go, fn.go) and of the part of the schema     *)
(* graph it reads (core/internal/sdata/schema.go).                         *)
(*                                                                         *)
(* One compile is a run of the state machine                               *)
(*   CompileStart  -> CompileStep* -> CompileFinish                        *)
(* where CompileStep is one iteration of the work-stack loop of            *)
(* Compiler.compileQuery.  The parsed operation, the role, the role's      *)
(* policy and the database dialect are the inputs, drawn in Init.          *)
(*                                                                         *)
(* Names of tables, columns and arguments are TLA+ strings.  Names of the  *)
(* leaf sub-fields of a field (the names the function classifier slices)   *)
(* are sequences of one-character strings, so that HasPrefix, HasSuffix    *)
(* and the slices fname[n:] are computed character by character.           *)
(***************************************************************************)
EXTENDS Integers, Sequences, FiniteSets, TLC

\* ------------------------------------------------------------------ bounds

\* Fields of an operation whose tree shape is enumerated exhaustively.
MaxFields == 3
\* Longest chain of nested fields (must pass maxSelectors).
MaxChain == 31
\* Arguments on the field under study.
MaxArgs == 2
\* Keys of one order_by object.
MaxOrderKeys == 2
\* Leaf sub-fields of the field under study.
MaxLeaves == 2
\* Filter strings configured for one role and table.
MaxFilters == 3

\* ------------------------------------------------------- program constants

maxSelectors == 30

\* ------------------------------------------------------------------ helpers

Last(s) == s[Len(s)]

Front(s) == SubSeq(s, 1, Len(s) - 1)

RECURSIVE Reverse(_)
Reverse(s) == IF s = <<>> THEN <<>> ELSE Append(Reverse(Tail(s)), Head(s))

Range(s) == {s[i] : i \in 1..Len(s)}

\* strings.HasPrefix / strings.HasSuffix on character sequences
HasPrefix(s, p) == Len(p) <= Len(s) /\ SubSeq(s, 1, Len(p)) = p

HasSuffix(s, p) ==
    Len(p) <= Len(s) /\ SubSeq(s, Len(s) - Len(p) + 1, Len(s)) = p

\* Go's s[n:] and s[:n] (0-based n) on character sequences
SliceFrom(s, n) == SubSeq(s, n + 1, Len(s))

SliceTo(s, n) == SubSeq(s, 1, n)

\* ------------------------------------------------------------ schema catalogue

\* sdata.RelType
RelNone == "RelNone"
RelOneToOne == "RelOneToOne"
RelOneToMany == "RelOneToMany"
RelPolymorphic == "RelPolymorphic"
RelRecursive == "RelRecursive"
RelEmbedded == "RelEmbedded"
RelRemote == "RelRemote"
RelSkip == "RelSkip"

\* The zero value of sdata.DBColumn.
NoCol ==
    [Name |-> "", Schema |-> "", Table |-> "", PrimaryKey |-> FALSE,
     UniqueKey |-> FALSE, Array |-> FALSE,
     FKeySchema |-> "", FKeyTable |-> "", FKeyCol |-> ""]

Column(table, name) ==
    [NoCol EXCEPT !.Name = name, !.Schema = "public", !.Table = table]

PKColumn(table, name) == [Column(table, name) EXCEPT !.PrimaryKey = TRUE]

FKColumn(table, name, ftable, fcol) ==
    [Column(table, name) EXCEPT !.FKeyTable = ftable, !.FKeyCol = fcol]

\* The zero value of sdata.DBTable.
NoTable ==
    [Name |-> "", Schema |-> "", Type |-> "", Columns |-> <<>>,
     PrimaryCol |-> NoCol, Blocked |-> FALSE, FullText |-> FALSE]

\* The catalogue the introspector hands to NewDBSchema: plain tables with
\* foreign keys (posts -> users, comments -> posts, customers -> users), a
\* blocked table (admins), a table without primary key (logs) and a remote
\* table (payments, resolved through customers.id).
InfoTables ==
    << [NoTable EXCEPT !.Name = "users", !.Schema = "public", !.Type = "table",
          !.Columns = << PKColumn("users", "id"), Column("users", "name"),
                         Column("users", "full_name") >>,
          !.PrimaryCol = PKColumn("users", "id"), !.FullText = TRUE],
       [NoTable EXCEPT !.Name = "posts", !.Schema = "public", !.Type = "table",
          !.Columns = << PKColumn("posts", "id"), Column("posts", "title"),
                         Column("posts", "views"),
                         FKColumn("posts", "user_id", "users", "id") >>,
          !.PrimaryCol = PKColumn("posts", "id")],
       [NoTable EXCEPT !.Name = "comments", !.Schema = "public", !.Type = "table",
          !.Columns = << PKColumn("comments", "id"), Column("comments", "body"),
                         FKColumn("comments", "post_id", "posts", "id") >>,
          !.PrimaryCol = PKColumn("comments", "id")],
       [NoTable EXCEPT !.Name = "customers", !.Schema = "public", !.Type = "table",
          !.Columns = << PKColumn("customers", "id"),
                         FKColumn("customers", "user_id", "users", "id") >>,
          !.PrimaryCol = PKColumn("customers", "id")],
       [NoTable EXCEPT !.Name = "admins", !.Schema = "public", !.Type = "table",
          !.Columns = << PKColumn("admins", "id"), Column("admins", "name") >>,
          !.PrimaryCol = PKColumn("admins", "id"), !.Blocked = TRUE],
       [NoTable EXCEPT !.Name = "logs", !.Schema = "public", !.Type = "table",
          !.Columns = << Column("logs", "msg") >>],
       [NoTable EXCEPT !.Name = "payments", !.Schema = "public", !.Type = "remote",
          !.PrimaryCol = FKColumn("payments", "customer_id", "customers", "id")] >>

\* The DBSchema before NewDBSchema has run: tables is the list DBSchema.tables,
\* edges the relationship graph, fm the keys of the function map.
NilSchema == [tables |-> <<>>, edges |-> {}, fm |-> {}]

\* The DBSchema literal of NewDBSchema with the tables the addNode loop puts
\* into it: no relationship yet, and no function.
SchemaTables(tables) == [NilSchema EXCEPT !.tables = tables]

\* The table index tindex, keyed by schema and name: the look-up of
\* addColumnRels, line 210.
IndexedOk(s, schema, name) ==
    \E i \in 1..Len(s.tables) :
        s.tables[i].Schema = schema /\ s.tables[i].Name = name

Indexed(s, schema, name) ==
    s.tables[CHOOSE i \in 1..Len(s.tables) :
                s.tables[i].Schema = schema /\ s.tables[i].Name = name]

\* DBSchema.Find(schema, name): the table, or an error
FindOk(s, name) == \E i \in 1..Len(s.tables) : s.tables[i].Name = name

Find(s, name) ==
    IF FindOk(s, name)
    THEN s.tables[CHOOSE i \in 1..Len(s.tables) : s.tables[i].Name = name]
    ELSE NoTable

\* DBTable.getColumn / GetColumn
HasColumn(ti, name) == \E i \in 1..Len(ti.Columns) : ti.Columns[i].Name = name

GetColumn(ti, name) ==
    IF HasColumn(ti, name)
    THEN ti.Columns[CHOOSE i \in 1..Len(ti.Columns) : ti.Columns[i].Name = name]
    ELSE NoCol

\* ------------------------------------------------------------ schema graph

Edge(lt, lc, rt, rc, type) ==
    [From |-> lt.Name, To |-> rt.Name, Type |-> type,
     LT |-> lt, LC |-> lc, RT |-> rt, RC |-> rc]

\* The relationship type the reverse edge of a foreign key carries.
OppositeRel(rt) ==
    CASE rt = RelOneToOne -> RelOneToMany
      [] rt = RelOneToMany -> RelOneToOne
      [] OTHER -> rt

\* addToGraph: a foreign-key edge goes in in both directions, a recursive,
\* remote or embedded one in one.
addToGraph(lt, lc, rt, rc, type) ==
    IF type \in {RelOneToOne, RelOneToMany}
    THEN {Edge(lt, lc, rt, rc, type), Edge(rt, rc, lt, lc, OppositeRel(type))}
    ELSE {Edge(lt, lc, rt, rc, type)}

\* The switch of addColumnRels that classifies a foreign key of table t,
\* column c, onto column fc.
ColumnRelType(t, c, fc) ==
    IF t.Name = c.FKeyTable THEN RelRecursive
    ELSE IF fc.UniqueKey THEN RelOneToOne
    ELSE RelOneToMany

\* The copy of column c addColumnRels works on: a foreign key that names no
\* schema points into the schema of its own table t.
FKeyIn(t, c) ==
    IF c.FKeyTable # "" /\ c.FKeySchema = ""
    THEN [c EXCEPT !.FKeySchema = t.Schema] ELSE c

\* addColumnRels: the edges of the foreign keys of table t
addColumnRels(s, t) ==
    UNION { LET c == FKeyIn(t, t.Columns[i])
                ft == Indexed(s, c.FKeySchema, c.FKeyTable)
                fc == GetColumn(ft, c.FKeyCol)
            IN  IF c.FKeyTable = "" \/ c.FKeyCol = "" THEN {}
                ELSE addToGraph(t, c, ft, fc, ColumnRelType(t, c, fc))
          : i \in 1..Len(t.Columns) }

\* The error addColumnRels returns at column c of table t (lines 210-223),
\* "" for none.
columnRelErr(s, t, c) ==
    IF c.FKeyTable = "" THEN ""
    ELSE IF ~IndexedOk(s, c.FKeySchema, c.FKeyTable)
    THEN "foreign key table not found"
    ELSE IF c.FKeyCol = "" THEN ""
    ELSE IF ~HasColumn(Indexed(s, c.FKeySchema, c.FKeyTable), c.FKeyCol)
    THEN "foreign key column not found"
    ELSE ""

\* The columns at which addColumnRels fails, as <<table index, column
\* index>>, and the error NewDBSchema returns from the loop of lines
\* 120-125: that of the first of them, "" for none.
RelErrAt(s, p) ==
    columnRelErr(s, s.tables[p[1]], FKeyIn(s.tables[p[1]], s.tables[p[1]].Columns[p[2]]))

RelErrPairs(s) ==
    {p \in UNION {{<<i, j>> : j \in 1..Len(s.tables[i].Columns)} :
                    i \in 1..Len(s.tables)} : RelErrAt(s, p) # ""}

addRelsErr(s) ==
    IF RelErrPairs(s) = {} THEN ""
    ELSE RelErrAt(s, CHOOSE p \in RelErrPairs(s) :
                        \A q \in RelErrPairs(s) :
                            p[1] < q[1] \/ (p[1] = q[1] /\ p[2] <= q[2]))

\* addRemoteRel: the single remote edge of a remote table
addRemoteRel(s, t) ==
    LET pt == Find(s, t.PrimaryCol.FKeyTable)
        pc == GetColumn(pt, t.PrimaryCol.FKeyCol)
    IN  addToGraph(t, t.PrimaryCol, pt, pc, RelRemote)

\* addRels
addRels(s, t) ==
    (IF t.Type = "remote" THEN addRemoteRel(s, t) ELSE {}) \cup addColumnRels(s, t)

\* The edges of the relationship graph NewDBSchema builds over the tables
\* of s.
SchemaEdges(s) == UNION {addRels(s, s.tables[i]) : i \in 1..Len(s.tables)}

\* The simple directed paths of n edges from table a to table b that avoid
\* the tables in seen.
RECURSIVE SimplePaths(_, _, _, _, _)
SimplePaths(s, a, b, n, seen) ==
    IF n = 0 THEN (IF a = b THEN {<<>>} ELSE {})
    ELSE UNION { {<<e>> \o p : p \in SimplePaths(s, e.To, b, n - 1, seen \cup {e.To})}
                 : e \in {x \in s.edges : x.From = a /\ x.To \notin seen} }

\* Edges of the shortest path from a to b (0 when there is none).
PathLen(s, a, b) ==
    LET ns == {n \in 1..Len(s.tables) : SimplePaths(s, a, b, n, {a}) # {}}
    IN  IF ns = {} THEN 0 ELSE CHOOSE n \in ns : \A m \in ns : n <= m

\* A path of n edges from a to b, none for n = 0.
PathOfLen(s, a, b, n) ==
    IF n = 0 THEN <<>> ELSE CHOOSE p \in SimplePaths(s, a, b, n, {a}) : TRUE

\* DBSchema.FindPath(from, to): "" and the edges of the shortest path from
\* the child's table to the parent's, or an error and no path.  A table is
\* related to itself by its recursive edge only.
FindPathErr(s, from, to) ==
    IF ~FindOk(s, from) \/ ~FindOk(s, to) THEN "table not found" ELSE ""

FindPath(s, from, to) ==
    IF FindPathErr(s, from, to) # "" THEN <<>>
    ELSE IF from = to
    THEN LET re == {x \in s.edges : x.From = from /\ x.To = to}
         IN  IF re = {} THEN <<>> ELSE <<CHOOSE x \in re : TRUE>>
    ELSE PathOfLen(s, from, to, PathLen(s, from, to))

\* sdata.PathToRel
NoRel ==
    [Type |-> RelNone, Left |-> [Ti |-> NoTable, Col |-> NoCol],
     Right |-> [Ti |-> NoTable, Col |-> NoCol]]

PathToRel(p) ==
    [Type |-> p.Type, Left |-> [Ti |-> p.LT, Col |-> p.LC],
     Right |-> [Ti |-> p.RT, Col |-> p.RC]]

\* ------------------------------------------------------------ strings

\* The characters of the names of the catalogue.
Chars ==
    ("users" :> <<"u", "s", "e", "r", "s">>) @@
    ("posts" :> <<"p", "o", "s", "t", "s">>) @@
    ("comments" :> <<"c", "o", "m", "m", "e", "n", "t", "s">>) @@
    ("customers" :> <<"c", "u", "s", "t", "o", "m", "e", "r", "s">>) @@
    ("admins" :> <<"a", "d", "m", "i", "n", "s">>) @@
    ("logs" :> <<"l", "o", "g", "s">>) @@
    ("payments" :> <<"p", "a", "y", "m", "e", "n", "t", "s">>) @@
    ("id" :> <<"i", "d">>) @@
    ("name" :> <<"n", "a", "m", "e">>) @@
    ("full_name" :> <<"f", "u", "l", "l", "_", "n", "a", "m", "e">>) @@
    ("title" :> <<"t", "i", "t", "l", "e">>) @@
    ("views" :> <<"v", "i", "e", "w", "s">>) @@
    ("user_id" :> <<"u", "s", "e", "r", "_", "i", "d">>) @@
    ("body" :> <<"b", "o", "d", "y">>) @@
    ("post_id" :> <<"p", "o", "s", "t", "_", "i", "d">>) @@
    ("msg" :> <<"m", "s", "g">>) @@
    ("customer_id" :> <<"c", "u", "s", "t", "o", "m", "e", "r", "_", "i", "d">>)

\* The catalogue name spelled by a character sequence ("" when there is none).
NameOf(cseq) ==
    IF \E n \in DOMAIN Chars : Chars[n] = cseq
    THEN CHOOSE n \in DOMAIN Chars : Chars[n] = cseq
    ELSE ""

\* strings.ToLower, on the letters the catalogue uses
LowerChar(c) ==
    CASE c = "G" -> "g"
      [] c = "F" -> "f"
      [] c = "N" -> "n"
      [] OTHER -> c

ToLower(cseq) == [i \in 1..Len(cseq) |-> LowerChar(cseq[i])]

\* strings.Split(s, "__"): cut at each leftmost occurrence of "__"
RECURSIVE SplitUU(_, _)
SplitUU(s, cur) ==
    IF s = <<>> THEN <<cur>>
    ELSE IF Len(s) >= 2 /\ s[1] = "_" /\ s[2] = "_"
    THEN <<cur>> \o SplitUU(SliceFrom(s, 2), <<>>)
    ELSE SplitUU(Tail(s), Append(cur, Head(s)))

Split(s) == SplitUU(s, <<>>)

\* The permutations of a finite set, as sequences: the orders in which a Go
\* range statement may visit the keys of a map.
RECURSIVE Perms(_)
Perms(S) ==
    IF S = {} THEN {<<>>}
    ELSE UNION { {<<x>> \o p : p \in Perms(S \ {x})} : x \in S }

\* ------------------------------------------------------------ schema functions

\* A variant of lines 127-131 over a map that has been made: every function
\* of one parameter is registered under its lower-cased name.
RegisterFunctionsMade(infoFns) ==
    [panic |-> FALSE,
     fm |-> {ToLower(infoFns[i].Name) :
               i \in {j \in 1..Len(infoFns) : infoFns[j].NParams = 1}}]

\* NewDBSchema, lines 127-131: the function map after the registration loop.
\* The DBSchema literal of lines 78-90 holds no entry for fm, so fm is the nil
\* map and the first assignment into it panics.  The result is
\* [panic, fm]: fm maps the lower-cased name of each registered function to
\* its number of parameters.
RegisterFunctions(infoFns) ==
    LET unary == {i \in 1..Len(infoFns) : infoFns[i].NParams = 1}
    IN  IF unary # {}
        THEN [panic |-> TRUE, fm |-> {}]
        ELSE [panic |-> FALSE, fm |-> {}]

\* DBSchema.GetFunctions: the keys of s.fm
GetFunctions(s) == s.fm

\* ------------------------------------------------------------ fn.go

\* Compiler.funcPrefixLen.  ord is the order in which the range over
\* GetFunctions() visits the keys.  The switch of lines 52-75 takes the first
\* case that matches, in the order written.
BuiltinPrefixLen(col) ==
    IF HasPrefix(col, <<"a", "v", "g", "_">>) THEN 4
    ELSE IF HasPrefix(col, <<"c", "o", "u", "n", "t", "_">>) THEN 6
    ELSE IF HasPrefix(col, <<"m", "a", "x", "_">>) THEN 4
    ELSE IF HasPrefix(col, <<"m", "i", "n", "_">>) THEN 4
    ELSE IF HasPrefix(col, <<"s", "u", "m", "_">>) THEN 4
    ELSE IF HasPrefix(col, <<"s", "t", "d", "d", "e", "v", "_">>) THEN 7
    ELSE IF HasPrefix(col, <<"s", "t", "d", "d", "e", "v", "_", "p", "o", "p", "_">>) THEN 11
    ELSE IF HasPrefix(col, <<"s", "t", "d", "d", "e", "v", "_", "s", "a", "m", "p", "_">>) THEN 12
    ELSE IF HasPrefix(col, <<"v", "a", "r", "i", "a", "n", "c", "e", "_">>) THEN 9
    ELSE IF HasPrefix(col, <<"v", "a", "r", "_", "p", "o", "p", "_">>) THEN 8
    ELSE IF HasPrefix(col, <<"v", "a", "r", "_", "s", "a", "m", "p", "_">>) THEN 9
    ELSE 0

FuncKeyMatches(col, k) ==
    /\ Len(k) < Len(col)
    /\ Len(k) > 0
    /\ k[1] = col[1]
    /\ HasPrefix(col, k)
    /\ col[Len(k) + 1] = "_"

RECURSIVE RangeFirstMatch(_, _)
RangeFirstMatch(col, ord) ==
    IF ord = <<>> THEN 0
    ELSE IF FuncKeyMatches(col, Head(ord)) THEN Len(Head(ord)) + 1
    ELSE RangeFirstMatch(col, Tail(ord))

funcPrefixLen(col, ord) ==
    IF BuiltinPrefixLen(col) # 0 THEN BuiltinPrefixLen(col)
    ELSE RangeFirstMatch(col, ord)

\* ------------------------------------------------------------ expressions

\* qcode.Exp.  NilExp is the nil *Exp.  Op is the name of the ExpOp, Type the
\* name of the ValType ("" for the zero value).
NilExp ==
    [Op |-> "nil", Type |-> "", Table |-> "", Col |-> NoCol, Val |-> "",
     Children |-> <<>>]

newExpOp(op) == [NilExp EXCEPT !.Op = op]

newExp == newExpOp("OpNop")

\* A variant of setFilter that puts the new filter behind the Where that is
\* there.
setFilterBehind(where, fil) ==
    IF where # NilExp
    THEN [newExpOp("OpAnd") EXCEPT !.Children = <<where, fil>>]
    ELSE fil

\* setFilter: AND the new filter in front of the Where that is there
setFilter(where, fil) ==
    IF where # NilExp
    THEN [newExpOp("OpAnd") EXCEPT !.Children = <<fil, where>>]
    ELSE fil

\* ------------------------------------------------------------ selects

NoPaging ==
    [Type |-> "PTOffset", LimitVar |-> "", Limit |-> 0, OffsetVar |-> "",
     Offset |-> 0, Cursor |-> FALSE, NoLimit |-> FALSE]

\* The Select literal of compileQuery, lines 334-337: every other field has
\* its zero value.  ArgMap is the set of <<name, value>> pairs of the map.
NewSelect(id, parentID) ==
    [ID |-> id, ParentID |-> parentID, Type |-> "SelTypeNone",
     Singular |-> FALSE, Typename |-> FALSE, Table |-> "", FieldName |-> "",
     Cols |-> <<>>, Funcs |-> <<>>, ArgMap |-> {}, Where |-> NilExp,
     OrderBy |-> <<>>, DistinctOn |-> <<>>, Paging |-> NoPaging,
     Children |-> <<>>, SkipRender |-> "SkipTypeNone", Ti |-> NoTable,
     Rel |-> NoRel, Joins |-> <<>>, order |-> "OrderNone", through |-> ""]

\* Select.addArg
addArg(sel, arg) ==
    [sel EXCEPT !.ArgMap =
        {p \in sel.ArgMap : p[1] # arg.Name} \cup {<<arg.Name, arg.Val.Val>>}]

HasArg(sel, name) == \E p \in sel.ArgMap : p[1] = name

ArgVal(sel, name) == (CHOOSE p \in sel.ArgMap : p[1] = name)[2]

\* A handler's result: the select as the handler leaves it and the error it
\* returns ("" for nil).
Ok(sel) == [sel |-> sel, err |-> ""]

Fail(sel, msg) == [sel |-> sel, err |-> msg]

\* ------------------------------------------------------------ parsed input

\* graph.Node: the value of an argument, Val its text.
Node(type, name, val, children) ==
    [Type |-> type, Name |-> name, Val |-> val, Children |-> children]

NumNode(v) == Node("NodeNum", "", v, <<>>)
StrNode(v) == Node("NodeStr", "", v, <<>>)
VarNode(v) == Node("NodeVar", "", v, <<>>)
BoolNode(v) == Node("NodeBool", "", v, <<>>)

\* graph.Arg and graph.Directive
Arg(name, val) == [Name |-> name, Val |-> val]

Directive(name, args) == [Name |-> name, Args |-> args]

\* strconv.ParseInt(s, 10, 32) on the number literals the inputs use: the
\* value of a literal of a 32-bit integer, an error on any other text
\* ("4294967296" is out of range).
IntLiterals == ("1" :> 1) @@ ("5" :> 5) @@ ("10" :> 10)

ParseIntOk(v) == v \in DOMAIN IntLiterals

ParseInt(v) == IntLiterals[v]

\* ------------------------------------------------------------ directives

argErr(name, ty) == "value for argument '" \o name \o "' must be a " \o ty

\* compileDirectiveSkip / compileDirectiveInclude
compileDirectiveIf(sel, d, op, missing) ==
    IF Len(d.Args) = 0 \/ d.Args[1].Name # "if" THEN Fail(sel, missing)
    ELSE IF d.Args[1].Val.Type # "NodeVar" THEN Fail(sel, argErr("if", "variable"))
    ELSE Ok([sel EXCEPT !.Where =
                setFilter(sel.Where,
                          [newExpOp(op) EXCEPT !.Type = "ValVar",
                                               !.Val = d.Args[1].Val.Val])])

compileDirectiveSkip(sel, d) ==
    compileDirectiveIf(sel, d, "OpNotEqualsTrue",
                       "@skip: required argument 'if' missing")

compileDirectiveInclude(sel, d) ==
    compileDirectiveIf(sel, d, "OpEqualsTrue",
                       "@include: required argument 'if' missing")

compileDirectiveNotRelated(sel, d) == Ok([sel EXCEPT !.Rel.Type = RelSkip])

compileDirectiveThrough(sel, d) ==
    IF Len(d.Args) = 0 \/ d.Args[1].Name # "table"
    THEN Fail(sel, "@through: required argument 'table' missing")
    ELSE IF d.Args[1].Val.Type # "NodeStr" THEN Fail(sel, argErr("table", "string"))
    ELSE Ok([sel EXCEPT !.through = d.Args[1].Val.Val])

compileDirective(sel, d) ==
    CASE d.Name = "skip" -> compileDirectiveSkip(sel, d)
      [] d.Name = "include" -> compileDirectiveInclude(sel, d)
      [] d.Name = "not_related" -> compileDirectiveNotRelated(sel, d)
      [] d.Name = "through" -> compileDirectiveThrough(sel, d)
      [] d.Name = "object" -> Ok([sel EXCEPT !.Singular = TRUE])
      [] OTHER -> Ok(sel)

\* compileDirectives: the directives in order, up to the first error
RECURSIVE compileDirectives(_, _)
compileDirectives(sel, dirs) ==
    IF dirs = <<>> THEN Ok(sel)
    ELSE LET r == compileDirective(sel, Head(dirs))
         IN  IF r.err # "" THEN r ELSE compileDirectives(r.sel, Tail(dirs))

\* ------------------------------------------------------------ arguments

\* compileArgID
compileArgID(sel, arg) ==
    LET node == arg.Val
        ex == [newExpOp("OpEquals") EXCEPT
                 !.Col = sel.Ti.PrimaryCol,
                 !.Type = CASE node.Type = "NodeNum" -> "ValNum"
                            [] node.Type = "NodeStr" -> "ValStr"
                            [] OTHER -> "ValVar",
                 !.Val = node.Val]
    IN  IF sel.ParentID # -1
        THEN Fail(sel, "argument 'id' can only be specified at the query root")
        ELSE IF node.Type \notin {"NodeNum", "NodeStr", "NodeVar"}
        THEN Fail(sel, argErr("id", "number, string or variable"))
        ELSE IF sel.Ti.PrimaryCol.Name = ""
        THEN Fail(sel, "no primary key column defined")
        ELSE IF node.Type = "NodeNum" /\ ~ParseIntOk(node.Val)
        THEN Fail(sel, "strconv.ParseInt: parsing failed")
        ELSE Ok([sel EXCEPT !.Where = ex, !.Singular = TRUE])

\* compileArgSearch
compileArgSearch(sel, arg, db) ==
    IF ~sel.Ti.FullText
    THEN Fail(sel, IF db = "mysql" THEN "no fulltext indexes defined for table"
                   ELSE "no tsvector column defined on table")
    ELSE IF arg.Val.Type # "NodeVar" THEN Fail(sel, argErr("search", "variable"))
    ELSE LET ex == [newExpOp("OpTsQuery") EXCEPT !.Type = "ValVar",
                                                 !.Val = arg.Val.Val]
             s1 == addArg(sel, arg)
         IN  Ok([s1 EXCEPT !.Where = setFilter(s1.Where, ex)])

\* The variables that stand for the user of the session.
UserVars == {"user_id", "user_id_provider", "user_role"}

\* Compiler.compileArgObj on an object {column: {operator: value}}: the leaf
\* expression, whether it needs the user, and the error.
WhereOps == ("eq" :> "OpEquals") @@ ("neq" :> "OpNotEquals") @@ ("gt" :> "OpGreaterThan")

compileArgObj(ti, arg) ==
    LET node == arg.Val
        cn == node.Children[1]
        on == cn.Children[1]
    IN  IF node.Type # "NodeObj" \/ Len(node.Children) # 1
        THEN [ex |-> NilExp, nu |-> FALSE, err |-> "expecting an object"]
        ELSE IF ~HasColumn(ti, cn.Name) \/ Len(cn.Children) # 1
                \/ on.Name \notin DOMAIN WhereOps
        THEN [ex |-> NilExp, nu |-> FALSE, err |-> "invalid where expression"]
        ELSE [ex |-> [newExpOp(WhereOps[on.Name]) EXCEPT
                        !.Col = GetColumn(ti, cn.Name),
                        !.Type = CASE on.Type = "NodeVar" -> "ValVar"
                                   [] on.Type = "NodeNum" -> "ValNum"
                                   [] OTHER -> "ValStr",
                        !.Val = on.Val],
              nu |-> on.Type = "NodeVar" /\ on.Val \in UserVars,
              err |-> ""]

\* compileArgWhere
compileArgWhere(ti, sel, arg, role) ==
    LET r == compileArgObj(ti, arg)
        s1 == IF r.nu /\ role = "anon"
              THEN [sel EXCEPT !.SkipRender = "SkipTypeUserNeeded"] ELSE sel
    IN  IF r.err # "" THEN Fail(sel, r.err)
        ELSE Ok([s1 EXCEPT !.Where = setFilter(s1.Where, r.ex)])

\* The switch of compileArgOrderBy on the direction ("" for the default case)
OrderOf(val) ==
    CASE val = "asc" -> "OrderAsc"
      [] val = "desc" -> "OrderDesc"
      [] val = "asc_nulls_first" -> "OrderAscNullsFirst"
      [] val = "desc_nulls_first" -> "OrderDescNullsFirst"
      [] val = "asc_nulls_last" -> "OrderAscNullsLast"
      [] val = "desc_nulls_last" -> "OrderDescNullsLast"
      [] OTHER -> ""

\* buildPath
RECURSIVE buildPath(_)
buildPath(a) ==
    IF Len(a) = 0 THEN ""
    ELSE IF Len(a) = 1 THEN a[1]
    ELSE buildPath(Front(a)) \o "." \o Last(a)

\* setOrderByColName: the names on the way from the node up to the argument;
\* the argument's own node carries no name.
setOrderByColName(ti, ob, node) ==
    LET list == IF node.Name # "" THEN <<node.Name>> ELSE <<>>
    IN  IF Len(list) = 0 THEN [ob |-> ob, err |-> ""]
        ELSE IF ~HasColumn(ti, buildPath(list))
        THEN [ob |-> ob, err |-> "column not found"]
        ELSE [ob |-> [ob EXCEPT !.Col = GetColumn(ti, buildPath(list))], err |-> ""]

\* The names of the columns a select is ordered by when compileArgOrderBy
\* is entered (the map cm, lines 901-908).
OrderByNames(sel) == {sel.OrderBy[i].Col.Name : i \in 1..Len(sel.OrderBy)}

\* The loop of compileArgOrderBy, lines 918-960: stack holds the nodes still
\* to pop (the top is the last), obList the entries made so far.
RECURSIVE orderByLoop(_, _, _, _)
orderByLoop(ti, cm, stack, obList) ==
    IF stack = <<>> THEN [obList |-> obList, err |-> ""]
    ELSE LET node == Last(stack)
             ob0 == [Col |-> NoCol, Order |-> OrderOf(node.Val)]
             r == setOrderByColName(ti, ob0, node)
         IN  IF node.Type \notin {"NodeStr", "NodeVar"}
             THEN [obList |-> obList, err |-> "expecting a string or variable"]
             ELSE IF OrderOf(node.Val) = ""
             THEN [obList |-> obList,
                   err |-> "valid values include asc, desc, asc_nulls_first and desc_nulls_first"]
             ELSE IF r.err # "" THEN [obList |-> obList, err |-> r.err]
             ELSE IF r.ob.Col.Name \in cm
             THEN [obList |-> obList,
                   err |-> "duplicate column in order by: " \o r.ob.Col.Name]
             ELSE orderByLoop(ti, cm, Front(stack), Append(obList, r.ob))

\* A variant of lines 962-964 that appends the entries in the order in which
\* the loop made them.
compileArgOrderByAsPopped(sel, arg) ==
    LET r == orderByLoop(sel.Ti, OrderByNames(sel), arg.Val.Children, <<>>)
    IN  IF arg.Val.Type # "NodeObj" THEN Fail(sel, "expecting an object")
        ELSE IF r.err # "" THEN Fail(sel, r.err)
        ELSE Ok([sel EXCEPT !.OrderBy = sel.OrderBy \o r.obList])

\* compileArgOrderBy: the children are pushed in order, popped from the top,
\* and the entries made are appended to OrderBy from the last to the first.
compileArgOrderBy(sel, arg) ==
    LET r == orderByLoop(sel.Ti, OrderByNames(sel), arg.Val.Children, <<>>)
    IN  IF arg.Val.Type # "NodeObj" THEN Fail(sel, "expecting an object")
        ELSE IF r.err # "" THEN Fail(sel, r.err)
        ELSE Ok([sel EXCEPT !.OrderBy = sel.OrderBy \o Reverse(r.obList)])

\* compileArgDistinctOn: the names of a string or of a list of strings
RECURSIVE distinctOnLoop(_, _, _)
distinctOnLoop(sel, names, db) ==
    IF names = <<>> THEN Ok(sel)
    ELSE IF ~HasColumn(sel.Ti, Head(names)) THEN Fail(sel, "column not found")
    ELSE LET col == GetColumn(sel.Ti, Head(names))
             s1 == IF db = "mysql"
                   THEN [sel EXCEPT !.OrderBy =
                           Append(sel.OrderBy, [Col |-> col, Order |-> "OrderAsc"])]
                   ELSE [sel EXCEPT !.DistinctOn = Append(sel.DistinctOn, col)]
         IN  distinctOnLoop(s1, Tail(names), db)

compileArgDistinctOn(sel, arg, db) ==
    LET node == arg.Val
        names == (IF node.Type = "NodeStr" THEN <<node.Val>> ELSE <<>>)
                 \o [i \in 1..Len(node.Children) |-> node.Children[i].Val]
    IN  IF node.Type \notin {"NodeList", "NodeStr"}
        THEN Fail(sel, "expecting a list of strings or just a string")
        ELSE distinctOnLoop(sel, names, db)

\* compileArgLimit
compileArgLimit(sel, arg, db) ==
    LET node == arg.Val
    IN  IF node.Type \notin {"NodeNum", "NodeVar"}
        THEN Fail(sel, argErr("limit", "number or variable"))
        ELSE IF node.Type = "NodeNum"
        THEN IF ~ParseIntOk(node.Val) THEN Fail(sel, "strconv.ParseInt: parsing failed")
             ELSE Ok([sel EXCEPT !.Paging.Limit = ParseInt(node.Val)])
        ELSE IF db = "mysql"
        THEN Fail(sel, "mysql: value for argument 'limit' must be a number")
        ELSE Ok([sel EXCEPT !.Paging.LimitVar = node.Val])

\* compileArgOffset
compileArgOffset(sel, arg, db) ==
    LET node == arg.Val
    IN  IF node.Type \notin {"NodeNum", "NodeVar"}
        THEN Fail(sel, argErr("offset", "number or variable"))
        ELSE IF node.Type = "NodeNum"
        THEN IF ~ParseIntOk(node.Val) THEN Fail(sel, "strconv.ParseInt: parsing failed")
             ELSE Ok([sel EXCEPT !.Paging.Offset = ParseInt(node.Val)])
        ELSE IF db = "mysql"
        THEN Fail(sel, "mysql: value for argument 'limit' must be a number")
        ELSE Ok([sel EXCEPT !.Paging.OffsetVar = node.Val])

\* compileArgFirstLast
compileArgFirstLast(sel, arg, order, db) ==
    LET r == compileArgLimit(sel, arg, db)
        s1 == IF ~r.sel.Singular THEN [r.sel EXCEPT !.Paging.Cursor = TRUE]
              ELSE r.sel
    IN  IF r.err # "" THEN r ELSE Ok([s1 EXCEPT !.order = order])

\* compileArgAfterBefore
compileArgAfterBefore(sel, arg, pt) ==
    LET node == arg.Val
        s1 == [sel EXCEPT !.Paging.Type = pt]
    IN  IF node.Type # "NodeVar" \/ node.Val # "cursor"
        THEN Fail(sel, "value for argument must be a variable named $cursor")
        ELSE Ok(IF ~s1.Singular THEN [s1 EXCEPT !.Paging.Cursor = TRUE] ELSE s1)

\* compileArgFind
compileArgFind(sel, arg) ==
    IF sel.Rel.Type # RelRecursive THEN Fail(sel, "find: selector is not recursive")
    ELSE IF arg.Val.Val \notin {"parents", "children"}
    THEN Fail(sel, "find: valid values 'parents' or 'children'")
    ELSE Ok(addArg(sel, arg))

\* The switch of compileArgs
compileArg(sel, arg, role, db) ==
    CASE arg.Name = "id" -> compileArgID(sel, arg)
      [] arg.Name = "search" -> compileArgSearch(sel, arg, db)
      [] arg.Name = "where" -> compileArgWhere(sel.Ti, sel, arg, role)
      [] arg.Name \in {"orderby", "order_by", "order"} -> compileArgOrderBy(sel, arg)
      [] arg.Name \in {"distinct_on", "distinct"} -> compileArgDistinctOn(sel, arg, db)
      [] arg.Name = "limit" -> compileArgLimit(sel, arg, db)
      [] arg.Name = "offset" -> compileArgOffset(sel, arg, db)
      [] arg.Name = "first" -> compileArgFirstLast(sel, arg, "OrderAsc", db)
      [] arg.Name = "last" -> compileArgFirstLast(sel, arg, "OrderDesc", db)
      [] arg.Name = "after" -> compileArgAfterBefore(sel, arg, "PTForward")
      [] arg.Name = "before" -> compileArgAfterBefore(sel, arg, "PTBackward")
      [] arg.Name = "find" -> compileArgFind(sel, arg)
      [] OTHER -> Ok(sel)

\* The next argument after the ones before it, unless one of them failed
nextArg(r, arg, role, db) ==
    IF r.err # "" THEN r ELSE compileArg(r.sel, arg, role, db)

\* compileArgs: the arguments in order, up to the first error
RECURSIVE compileArgs(_, _, _, _)
compileArgs(sel, args, role, db) ==
    IF args = <<>> THEN Ok(sel)
    ELSE nextArg(compileArgs(sel, Front(args), role, db), Last(args), role, db)

\* ------------------------------------------------------------ role policy

\* trval: the policy of a (role, table) pair, one sub-policy per operation
\* family: block, the baseline filter fil with its needs-user flag filNU,
\* the row limit and skip.
SubPolicy(block, fil, filNU, limit, skip) ==
    [block |-> block, fil |-> fil, filNU |-> filNU, limit |-> limit,
     skip |-> skip]

OpenPolicy == SubPolicy(FALSE, NilExp, FALSE, 0, FALSE)

Family(qt) ==
    CASE qt = "QTQuery" -> "query"
      [] qt = "QTInsert" -> "insert"
      [] qt = "QTUpdate" -> "update"
      [] qt = "QTUpsert" -> "upsert"
      [] qt = "QTDelete" -> "delete"
      [] OTHER -> ""

\* trval.filter(qt), trval.isSkipped(qt), trval.isBlocked(qt, name),
\* trval.limit(qt): the sub-policy of the family of qt; an operation type
\* without family has no filter, no limit, and is neither skipped nor blocked.
trFilter(tr, qt) ==
    IF Family(qt) = "" THEN [fil |-> NilExp, nu |-> FALSE]
    ELSE [fil |-> tr[Family(qt)].fil, nu |-> tr[Family(qt)].filNU]

trIsSkipped(tr, qt) == Family(qt) # "" /\ tr[Family(qt)].skip

trIsBlocked(tr, qt) == Family(qt) # "" /\ tr[Family(qt)].block

trLimit(tr, qt) == IF Family(qt) = "" THEN 0 ELSE tr[Family(qt)].limit

\* Compiler.getRole(role, field): the registry's policy for the role and
\* the table; registry maps a role to the policy it has for every table.
getRole(registry, role, name) == registry[role]

\* ------------------------------------------------------------ configuration

\* qcode.Config: no default limit, no inflection, schema "public"
Config == [DefaultLimit |-> 0, EnableInflection |-> FALSE, DBSchema |-> "public"]

FallbackLimit == 20

\* ------------------------------------------------------------ select steps

\* setSingular (inflection is off in Config)
setSingular(sel) ==
    IF sel.Singular THEN sel
    ELSE IF (sel.Rel.Type = RelOneToMany /\ ~sel.Rel.Right.Col.Array)
            \/ sel.Rel.Type = RelPolymorphic
    THEN [sel EXCEPT !.Singular = TRUE]
    ELSE IF Len(sel.Joins) = 0 THEN sel
    ELSE IF (Last(sel.Joins).Type = RelOneToMany /\ ~Last(sel.Joins).Right.Col.Array)
            \/ Last(sel.Joins).Type = RelPolymorphic
    THEN [sel EXCEPT !.Singular = TRUE]
    ELSE sel

\* setLimit
setLimit(tr, qc, sel) ==
    IF trLimit(tr, qc.Type) # 0
    THEN [sel EXCEPT !.Paging.Limit = trLimit(tr, qc.Type)]
    ELSE IF Config.DefaultLimit # 0
    THEN [sel EXCEPT !.Paging.Limit = Config.DefaultLimit]
    ELSE [sel EXCEPT !.Paging.Limit = FallbackLimit]

\* addFilters: the Where after the baseline filter of the policy, and
\* whether the filter needs the user
addFilters(qc, where, tr) ==
    LET f == trFilter(tr, qc.SType)
    IN  IF f.fil = NilExp THEN [where |-> where, un |-> FALSE]
        ELSE [where |-> CASE f.fil.Op = "OpNop" -> where
                          [] f.fil.Op = "OpFalse" -> f.fil
                          [] OTHER -> setFilter(where, f.fil),
              un |-> f.nu]

\* Compiler.orderByIDCol: append the primary key column, in the order first
\* or last asked for, as the last order-by entry; a table without primary
\* key is an error.
orderByIDCol(sel) ==
    IF sel.Ti.PrimaryCol.Name = "" THEN Fail(sel, "table requires primary key")
    ELSE Ok([sel EXCEPT !.OrderBy =
                Append(sel.OrderBy, [Col |-> sel.Ti.PrimaryCol, Order |-> sel.order])])

\* A leaf of the seek predicate: a reference to column ob.Col of the cursor
\* row (lines 568-581).
SeekLeaf(ob, i, n) ==
    [newExp EXCEPT
       !.Type = "ValRef", !.Table = "__cur", !.Col = ob.Col, !.Val = ob.Col.Name,
       !.Op = IF i > 0 /\ n # i THEN "OpEquals"
              ELSE IF ob.Order = "OrderDesc" THEN "OpLesserThan"
              ELSE "OpGreaterThan"]

\* The children the pass i (0-based) of the outer loop of addSeekPredicate
\* adds to the OR node: the leaf itself for i = 0, an AND node over the
\* leaves of the columns 0..i for i > 0.
SeekPass(orderBy, i) ==
    LET leaves == [k \in 1..(i + 1) |-> SeekLeaf(orderBy[k], i, k - 1)]
    IN  IF i = 0 THEN leaves
        ELSE << [newExpOp("OpAnd") EXCEPT !.Children = leaves] >>

RECURSIVE SeekPasses(_, _)
SeekPasses(orderBy, i) ==
    IF i >= Len(orderBy) THEN <<>>
    ELSE SeekPass(orderBy, i) \o SeekPasses(orderBy, i + 1)

\* addSeekPredicate
addSeekPredicate(sel) ==
    LET isnull == [newExp EXCEPT
                     !.Op = "OpIsNull", !.Type = "ValRef", !.Table = "__cur",
                     !.Col = sel.OrderBy[1].Col, !.Val = "true"]
        or == IF Len(sel.OrderBy) # 0
              THEN [newExpOp("OpOr") EXCEPT
                      !.Children = <<isnull>> \o SeekPasses(sel.OrderBy, 0)]
              ELSE NilExp
    IN  [sel EXCEPT !.Where = setFilter(sel.Where, or)]

\* validateSelect
validateSelect(sel) ==
    IF sel.Rel.Type # RelRecursive THEN ""
    ELSE IF ~HasArg(sel, "find") THEN "arguments: 'find' needed for recursive queries"
    ELSE IF ArgVal(sel, "find") \notin {"parents", "children"}
    THEN "find: valid values are 'parents' and 'children'"
    ELSE ""

\* ------------------------------------------------------------ functions

s_search_rank == <<"s", "e", "a", "r", "c", "h", "_", "r", "a", "n", "k">>
s_search_headline_ == <<"s", "e", "a", "r", "c", "h", "_", "h", "e", "a", "d", "l", "i", "n", "e", "_">>
s_search_headline == <<"s", "e", "a", "r", "c", "h", "_", "h", "e", "a", "d", "l", "i", "n", "e">>
s_typename == <<"_", "_", "t", "y", "p", "e", "n", "a", "m", "e">>
s_cursor == <<"_", "c", "u", "r", "s", "o", "r">>

\* The errors that are a Go panic, not an error value.
Panics == {"panic: index out of range", "panic: nil pointer dereference"}

\* qcode.Function: Sel is <<>> for nil and <<select>> otherwise.
NewFunction(fname) ==
    [Name |-> <<>>, FieldName |-> fname, skip |-> FALSE, Col |-> NoCol,
     Sel |-> <<>>]

\* Compiler.isFunction: the function, the rest of the name after the prefix,
\* whether it is an aggregate, the error, and the select (Typename may be set)
isFunction(sel, fname, ord) ==
    LET fn == NewFunction(fname)
        n == funcPrefixLen(fname, ord)
        res(f, fnExp, agg, err, s1) ==
            [fn |-> f, fnExp |-> fnExp, agg |-> agg, err |-> err, sel |-> s1]
    IN  CASE fname = s_search_rank ->
               IF ~HasArg(sel, "search")
               THEN res([fn EXCEPT !.Name = s_search_rank], <<>>, FALSE,
                        "no search defined", sel)
               ELSE res([fn EXCEPT !.Name = s_search_rank], <<>>, FALSE, "", sel)
          [] fname # s_search_rank /\ HasPrefix(fname, s_search_headline_) ->
               IF ~HasArg(sel, "search")
               THEN res([fn EXCEPT !.Name = s_search_headline], <<>>, FALSE,
                        "no search defined", sel)
               ELSE res([fn EXCEPT !.Name = s_search_headline],
                        SliceFrom(fname, 16), FALSE, "", sel)
          [] fname = s_typename ->
               res([fn EXCEPT !.skip = TRUE], <<>>, FALSE, "",
                   [sel EXCEPT !.Typename = TRUE])
          [] fname # s_typename /\ fname # s_search_rank
             /\ ~HasPrefix(fname, s_search_headline_) /\ HasSuffix(fname, s_cursor) ->
               res([fn EXCEPT !.skip = TRUE], <<>>, FALSE, "", sel)
          [] OTHER ->
               IF n # 0
               THEN res([fn EXCEPT !.Name = SliceTo(fname, n - 1)],
                        SliceFrom(fname, n), TRUE, "", sel)
               ELSE res(fn, <<>>, FALSE, "", sel)

\* Compiler.parseFuncExpression, lines 96-121: the function over a column
\* of another table, named by parts.  The err of this block is a variable of
\* the block; the function returns the outer one, which is nil, but the
\* lookups that fail leave the function without sub-select.
funcOverTable(s, sel, fn, parts, table, paths) ==
    IF table = NoTable THEN [fn |-> fn, err |-> "table not found"]
    ELSE IF Len(parts) # 1 /\ ~HasColumn(table, NameOf(parts[2]))
    THEN [fn |-> fn, err |-> "column not found"]
    ELSE IF Len(paths) = 0
    THEN [fn |-> fn, err |-> "panic: index out of range"]
    ELSE [fn |-> [fn EXCEPT !.Sel =
                    << [ParentID |-> sel.ID, Table |-> table.Name,
                        Cols |-> << [Col |-> IF Len(parts) = 1 THEN table.PrimaryCol
                                             ELSE GetColumn(table, NameOf(parts[2])),
                                     FieldName |-> <<>>] >>,
                        Rel |-> PathToRel(paths[1]),
                        Joins |-> [i \in 1..(Len(paths) - 1) |->
                                     PathToRel(paths[i + 1])]] >>],
          err |-> ""]

funcOverParts(s, sel, fn, parts) ==
    funcOverTable(s, sel, fn, parts, Find(s, NameOf(parts[1])),
                  FindPath(s, NameOf(parts[1]), sel.Table))

\* Compiler.parseFuncExpression: the function with its column or its
\* sub-select, and the error.
parseFuncExpression(s, sel, fn, fnExp) ==
    IF HasPrefix(fnExp, <<"_">>)
    THEN funcOverParts(s, sel, fn, Split(SliceFrom(fnExp, 1)))
    ELSE IF ~HasColumn(sel.Ti, NameOf(fnExp))
    THEN [fn |-> fn, err |-> "column not found"]
    ELSE [fn |-> [fn EXCEPT !.Col = GetColumn(sel.Ti, NameOf(fnExp))], err |-> ""]

\* ------------------------------------------------------------ work stack

\* f.ID | (parent << 16) as a signed 32-bit value, for a field id below 2^16
\* and a parent of -1 or below 2^15, and the two halves of a popped value:
\* val & 0xFFFF and (val >> 16) & 0xFFFF (the shift keeps the sign).
Pack(fid, parent) == fid + parent * 65536

FieldOf(val) == val % 65536

ParentOf(val) == (val \div 65536) % 65536

\* ------------------------------------------------------------ columns

\* Compiler.compileColumns, the leaf sub-fields: a function goes to Funcs, a
\* plain name must be a column of the table and goes to Cols, __typename
\* and NAME_cursor are dropped.
addFunc(sel, p) ==
    IF p.err # "" THEN Fail(sel, p.err)
    ELSE Ok([sel EXCEPT !.Funcs = Append(sel.Funcs, p.fn)])

\* One leaf, given what isFunction returned for it
addLeaf(s, sel, leaf, f) ==
    IF f.err # "" THEN Fail(sel, f.err)
    ELSE IF f.fn.skip THEN Ok(f.sel)
    ELSE IF f.fn.Name = <<>>
    THEN IF ~HasColumn(sel.Ti, NameOf(leaf)) THEN Fail(sel, "column not found")
         ELSE Ok([sel EXCEPT !.Cols = Append(sel.Cols,
                     [Col |-> GetColumn(sel.Ti, NameOf(leaf)), FieldName |-> leaf])])
    ELSE IF f.fn.Name \in {s_search_rank, s_search_headline}
    THEN Ok([sel EXCEPT !.Funcs = Append(sel.Funcs, f.fn)])
    ELSE addFunc(sel, parseFuncExpression(s, f.sel, f.fn, f.fnExp))

\* The next leaf after the ones before it, unless one of them failed
nextLeaf(s, r, leaf, ord) ==
    IF r.err # "" THEN r
    ELSE addLeaf(s, r.sel, leaf, isFunction(r.sel, leaf, ord))

\* The leaves in declared order, up to the first error
RECURSIVE compileLeaves(_, _, _, _)
compileLeaves(s, sel, leaves, ord) ==
    IF leaves = <<>> THEN Ok(sel)
    ELSE nextLeaf(s, compileLeaves(s, sel, Front(leaves), ord), Last(leaves), ord)

\* Compiler.compileColumns, the sub-selections: each child field is pushed,
\* in declared order, tagged with the id of the select.
RECURSIVE pushChildren(_, _, _)
pushChildren(st, children, selID) ==
    IF children = <<>> THEN st
    ELSE pushChildren(Append(st, Pack(Head(children), selID)), Tail(children), selID)

columnsDone(st, field, r) ==
    [sel |-> r.sel, err |-> r.err,
     st |-> IF r.err # "" THEN st ELSE pushChildren(st, field.Children, r.sel.ID)]

compileColumns(s, st, sel, field, ord) ==
    columnsDone(st, field, compileLeaves(s, sel, field.Sub, ord))

\* ------------------------------------------------------------ addRelInfo

\* graph.Field of the parsed operation: Children are the ids of the
\* sub-fields that select rows, Sub the names of the leaf sub-fields.
Field(id, parentID, name, type, args, dirs, children, sub) ==
    [ID |-> id, ParentID |-> parentID, Name |-> name, Alias |-> "",
     Type |-> type, Args |-> args, Directives |-> dirs,
     Children |-> children, Sub |-> sub]

\* op.Fields[id]
FieldAt(op, id) == op.Fields[id + 1]

\* A variant of lines 418-424 that records every select in Roots and none
\* in the Children of its parent.
LinkSelectAsRoot(qc, sel) == [qc EXCEPT !.Roots = Append(qc.Roots, sel.ID)]

\* Lines 418-424: a root is recorded in Roots, any other select in the
\* Children of its parent select.
LinkSelect(qc, sel) ==
    IF sel.ParentID = -1
    THEN [qc EXCEPT !.Roots = Append(qc.Roots, sel.ID)]
    ELSE [qc EXCEPT !.Selects[sel.ParentID + 1].Children =
                        Append(qc.Selects[sel.ParentID + 1].Children, sel.ID)]

\* Lines 445-448: whether the select leaves addRelInfo before its
\* relationship and its table are resolved.
LeavesUnresolved(sel, field) == sel.Rel.Type = RelSkip

\* Lines 450-463: the relationship of a select and its further join steps
\* from the path found.
RelOfPath(paths) == PathToRel(paths[1])

JoinsOfPath(paths) == [i \in 1..(Len(paths) - 1) |-> PathToRel(paths[i + 1])]

\* Lines 480-484: a remote select takes the name of the field as its table
\* and is counted.
CountRemote(qc) == [qc EXCEPT !.Remotes = qc.Remotes + 1]

\* What addRelInfo leaves: the QCode, the select and the error
Related(qc, sel, e) == [qc |-> qc, sel |-> sel, err |-> e]

\* Lines 426-443: the switch on the type of the field
typeSelect(qc, sel, field) ==
    CASE field.Type = "FieldUnion" -> [sel EXCEPT !.Type = "SelTypeUnion"]
      [] field.Type = "FieldMember" ->
           [sel EXCEPT !.Type = "SelTypeMember",
                       !.Singular = qc.Selects[sel.ParentID + 1].Singular]
      [] OTHER -> sel

\* Lines 474-487: the blocked check on the table found, then the table
\* name, the remote count or setSingular
tableFound(qc, sel, field) ==
    IF sel.Ti.Blocked THEN Related(qc, sel, "table blocked")
    ELSE IF sel.Rel.Type = RelRemote
    THEN Related(CountRemote(qc), [sel EXCEPT !.Table = field.Name], "")
    ELSE Related(qc, setSingular([sel EXCEPT !.Table = sel.Ti.Name]), "")

\* Lines 465-472: the table by the name of the field for a root or a
\* polymorphic select, the left table of the relationship otherwise
resolveTable(s, qc, sel, field) ==
    IF sel.ParentID = -1 \/ sel.Rel.Type = RelPolymorphic
    THEN IF ~FindOk(s, field.Name) THEN Related(qc, sel, "table not found")
         ELSE tableFound(qc, [sel EXCEPT !.Ti = Find(s, field.Name)], field)
    ELSE tableFound(qc, [sel EXCEPT !.Ti = sel.Rel.Left.Ti], field)

\* Lines 451-463: the path found from the child to the parent
pathFound(s, qc, sel, field, perr, paths) ==
    IF perr # "" THEN Related(qc, sel, perr)
    ELSE IF Len(paths) = 0 THEN Related(qc, sel, "no relationship found")
    ELSE resolveTable(s, qc,
                      [sel EXCEPT !.Rel = RelOfPath(paths),
                                  !.Joins = sel.Joins \o JoinsOfPath(paths)],
                      field)

\* Lines 445-488
relateSelect(s, qc, sel, field, childF, parentF) ==
    IF LeavesUnresolved(sel, field)
    THEN Related(qc, [sel EXCEPT !.Rel.Type = RelNone], "")
    ELSE IF sel.ParentID # -1
    THEN pathFound(s, qc, sel, field, FindPathErr(s, childF.Name, parentF.Name),
                   FindPath(s, childF.Name, parentF.Name))
    ELSE resolveTable(s, qc, sel, field)

\* Compiler.addRelInfo: the QCode, the select and the error
addRelInfo(s, op, qc, sel, field) ==
    IF field.Type = "FieldUnion" /\ sel.ParentID = -1
    THEN Related(LinkSelect(qc, sel), typeSelect(qc, sel, field),
                 "union types are only valid with polymorphic relationships")
    ELSE IF field.Type = "FieldMember" /\ sel.ParentID = -1
    THEN Related(LinkSelect(qc, sel), sel, "panic: nil pointer dereference")
    ELSE IF field.Type = "FieldMember" /\ FieldAt(op, field.ParentID).ParentID = -1
    THEN Related(LinkSelect(qc, sel), sel, "panic: index out of range")
    ELSE relateSelect(s, LinkSelect(qc, sel), typeSelect(qc, sel, field), field,
             IF field.Type = "FieldMember" THEN FieldAt(op, field.ParentID)
             ELSE field,
             IF field.Type = "FieldMember"
             THEN FieldAt(op, FieldAt(op, field.ParentID).ParentID)
             ELSE FieldAt(op, field.ParentID))

\* ------------------------------------------------------------ one select

\* setMutationType: the first of insert, update, upsert, delete among the
\* arguments of the first field decides; the QCode and the error.
RECURSIVE setMutationType(_, _)
setMutationType(qc, args) ==
    IF args = <<>> THEN [qc |-> qc, err |-> ""]
    ELSE LET arg == Head(args)
             setActionVar(q) ==
                 IF arg.Val.Type # "NodeVar"
                 THEN [qc |-> q, err |-> argErr(arg.Name, "variable")]
                 ELSE [qc |-> [q EXCEPT !.ActionVar = arg.Val.Val], err |-> ""]
         IN  CASE arg.Name = "insert" -> setActionVar([qc EXCEPT !.SType = "QTInsert"])
               [] arg.Name = "update" -> setActionVar([qc EXCEPT !.SType = "QTUpdate"])
               [] arg.Name = "upsert" -> setActionVar([qc EXCEPT !.SType = "QTUpsert"])
               [] arg.Name = "delete" ->
                    IF arg.Val.Type # "NodeBool"
                    THEN [qc |-> [qc EXCEPT !.SType = "QTDelete"],
                          err |-> argErr(arg.Name, "boolen")]
                    ELSE IF arg.Val.Val = "false"
                    THEN [qc |-> [qc EXCEPT !.SType = "QTDelete", !.Type = "QTQuery"],
                          err |-> ""]
                    ELSE [qc |-> [qc EXCEPT !.SType = "QTDelete"], err |-> ""]
               [] OTHER -> setMutationType(qc, Tail(args))

\* The QCode literal of Compile, line 250, with the type of the operation.
NewQCode(type) ==
    [Type |-> type, SType |-> "QTQuery", ActionVar |-> "", Selects |-> <<>>,
     Roots |-> <<>>, Remotes |-> 0, Mutated |-> FALSE]

\* The nil *QCode Compile returns with an error.
NilQCode == [NewQCode("QTUnknown") EXCEPT !.Type = "nil"]

\* A variant of line 314 that lets one more select through.
LimitReachedLate(id) == id > maxSelectors

\* Line 314: the guard on the number of selects made so far
LimitReached(id) == id >= maxSelectors

\* Lines 356-364: the render-skip of the policy, or its block
ApplyPolicy(sel, tr, qc) ==
    IF trIsSkipped(tr, qc.Type) THEN Ok([sel EXCEPT !.SkipRender = "SkipTypeUserNeeded"])
    ELSE IF trIsBlocked(tr, qc.SType) THEN Fail(sel, "blocked for role")
    ELSE Ok(sel)

\* A variant of lines 376-379 that skips the render for every role.
ApplyFiltersAnyRole(sel, tr, qc, role) ==
    IF addFilters(qc, sel.Where, tr).un
    THEN [sel EXCEPT !.Where = addFilters(qc, sel.Where, tr).where,
                     !.SkipRender = "SkipTypeUserNeeded"]
    ELSE [sel EXCEPT !.Where = addFilters(qc, sel.Where, tr).where]

\* Lines 376-379: the baseline filter, and the render-skip of role anon
ApplyFilters(sel, tr, qc, role) ==
    LET f == addFilters(qc, sel.Where, tr)
        s1 == [sel EXCEPT !.Where = f.where]
    IN  IF f.un /\ role = "anon" THEN [s1 EXCEPT !.SkipRender = "SkipTypeUserNeeded"]
        ELSE s1

\* A variant of lines 381-393 that leaves the order of a cursor as it is.
FinishCursorAsIs(sel) ==
    IF sel.Paging.Cursor /\ sel.Ti.PrimaryCol.Name = ""
    THEN Fail(sel, "table requires primary key")
    ELSE Ok(sel)

\* Lines 381-393: the tie-breaker and the seek predicate of a cursor
FinishCursor(sel) ==
    LET r == orderByIDCol(sel)
    IN  IF ~sel.Paging.Cursor THEN Ok(sel)
        ELSE IF r.err # "" THEN r
        ELSE IF r.sel.Paging.Type # "PTOffset" THEN Ok(addSeekPredicate(r.sel))
        ELSE r

\* The result of the body of the loop of compileQuery: the QCode, the stack
\* and the error.
Step(qc, st, e) == [qc |-> qc, st |-> st, err |-> e]

\* Lines 334-345: the Select literal and the name of the field
SelectOf(id, parentID, field) ==
    [NewSelect(id, IF field.ParentID = -1 THEN -1 ELSE parentID)
       EXCEPT !.FieldName = IF field.Alias # "" THEN field.Alias ELSE field.Name]

\* Lines 395-399: the error of validateSelect returned, or the select
\* appended to qc.Selects
appendSelect(qc, st, sel, verr) ==
    IF verr # "" THEN Step(qc, st, verr)
    ELSE Step([qc EXCEPT !.Selects = Append(qc.Selects, sel)], st, "")

\* Lines 381-397, after the cursor is finished
afterCursor(qc, st, f) ==
    IF f.err # "" THEN Step(qc, st, f.err)
    ELSE appendSelect(qc, st, f.sel, validateSelect(f.sel))

\* Lines 372-393, after compileColumns
afterColumns(qc, tr, role, c) ==
    IF c.err # "" THEN Step(qc, c.st, c.err)
    ELSE afterCursor(qc, c.st, FinishCursor(ApplyFilters(c.sel, tr, qc, role)))

\* Lines 368-374, after compileArgs
afterArgs(s, qc, st, field, tr, role, ord, g) ==
    IF g.err # "" THEN Step(qc, st, g.err)
    ELSE afterColumns(qc, tr, role, compileColumns(s, st, g.sel, field, ord))

\* Lines 364-370, after the policy of the role
afterPolicy(s, qc, st, field, tr, role, db, ord, p) ==
    IF p.err # "" THEN Step(qc, st, p.err)
    ELSE afterArgs(s, qc, st, field, tr, role, ord,
                   compileArgs(setLimit(tr, qc, p.sel), field.Args, role, db))

\* Lines 350-364, after addRelInfo
afterRelInfo(s, st, field, tr, role, db, ord, a) ==
    IF a.err # "" THEN Step(a.qc, st, a.err)
    ELSE afterPolicy(s, a.qc, st, field, tr, role, db, ord,
                     ApplyPolicy(a.sel, tr, a.qc))

\* Lines 346-352, after compileDirectives
afterDirectives(s, op, qc, st, field, tr, role, db, ord, d) ==
    IF d.err # "" THEN Step(qc, st, d.err)
    ELSE afterRelInfo(s, st, field, tr, role, db, ord,
                      addRelInfo(s, op, qc, d.sel, field))

\* Lines 330-399: the body of the loop of compileQuery for a field that is
\* not a keyword: the QCode with the select appended, the stack and the error
compileSelect(s, op, qc, st, id, parentID, field, role, registry, db, ord) ==
    afterDirectives(s, op, qc, st, field, getRole(registry, role, field.Name),
                    role, db, ord,
                    compileDirectives(SelectOf(id, parentID, field),
                                      field.Directives))

\* ------------------------------------------------------------ state

VARIABLES
    infoTables, \* input: the tables of the catalogue, DBInfo.Tables
    infoFns,    \* input: the functions of the catalogue, [Name, NParams] each
    filters,    \* input: the filter strings configured for the role's queries
    op,         \* input: the parsed operation, [Type, Fields]
    role,       \* input: the role of the request
    registry,   \* input: the role registry, role -> trval
    dbType,     \* input: the dialect, DBSchema.DBType()
    schema,     \* the DBSchema: its tables, its relationship edges, the keys of fm
    pc,         \* "new", "failed", "start", "loop", "done" or "crashed"
    qc,         \* the QCode under construction; what Compile returns when done
    st,         \* the work stack of compileQuery
    id,         \* the id of the next select
    err,        \* the error Compile returns ("" for nil), or the panic
    run,        \* 1 for the first compile of the input, 2 for the second
    prev        \* what the first compile returned

vars == <<infoTables, infoFns, filters, op, role, registry, dbType, schema, pc, qc, st, id, err, run, prev>>

inputs == <<infoTables, infoFns, filters, op, role, registry, dbType>>

\* ------------------------------------------------------------ leaf names

n_id == <<"i", "d">>
n_name == <<"n", "a", "m", "e">>
n_msg == <<"m", "s", "g">>
n_count_id == <<"c", "o", "u", "n", "t", "_", "i", "d">>
n_max_views == <<"m", "a", "x", "_", "v", "i", "e", "w", "s">>
n_get_full_name == <<"g", "e", "t", "_", "f", "u", "l", "l", "_", "n", "a", "m", "e">>
f_get == <<"g", "e", "t">>
f_get_full == <<"g", "e", "t", "_", "f", "u", "l", "l">>
f_now == <<"n", "o", "w">>

\* ------------------------------------------------------------ actions

\* NewDBSchema: the schema is built from the catalogue: the tables, their
\* relationships, whose loop may return an error, and the functions, whose
\* registration either panics or leaves the function map.
NewDBSchema ==
    /\ pc = "new"
    /\ IF addRelsErr(SchemaTables(infoTables)) # ""
       THEN /\ pc' = "failed"
            /\ err' = addRelsErr(SchemaTables(infoTables))
            /\ schema' = schema
       ELSE IF RegisterFunctions(infoFns).panic
       THEN /\ pc' = "crashed"
            /\ err' = "panic: assignment to entry in nil map"
            /\ schema' = schema
       ELSE /\ pc' = "start"
            /\ err' = err
            /\ schema' = [SchemaTables(infoTables) EXCEPT
                            !.edges = SchemaEdges(SchemaTables(infoTables)),
                            !.fm = RegisterFunctions(infoFns).fm]
    /\ UNCHANGED <<inputs, qc, st, id, run, prev>>
\* The operation type switch of Compile, lines 258-267
QTypeOf(opType) ==
    CASE opType = "OpQuery" -> "QTQuery"
      [] opType = "OpSub" -> "QTSubscription"
      [] opType = "OpMutate" -> "QTMutation"
      [] OTHER -> ""

\* Lines 302-307: the root fields pushed in order, each tagged with parent -1
RECURSIVE pushRoots(_, _)
pushRoots(stack, fields) ==
    IF fields = <<>> THEN stack
    ELSE pushRoots(IF Head(fields).ParentID = -1
                   THEN Append(stack, Pack(Head(fields).ID, -1)) ELSE stack,
                   Tail(fields))

\* Compile up to the loop of compileQuery (lines 247-307)
CompileStart ==
    /\ pc = "start"
    /\ LET q0 == NewQCode(QTypeOf(op.Type))
           m == IF op.Type = "OpMutate" THEN setMutationType(q0, op.Fields[1].Args)
                ELSE [qc |-> q0, err |-> ""]
           e == IF QTypeOf(op.Type) = "" THEN "invalid operation"
                ELSE IF Len(op.Fields) = 0 THEN "invalid graphql no query found"
                ELSE m.err
       IN  IF e # ""
           THEN /\ pc' = "done" /\ err' = e /\ qc' = NilQCode /\ st' = <<>>
           ELSE /\ pc' = "loop" /\ err' = "" /\ qc' = m.qc
                /\ st' = pushRoots(<<>>, op.Fields)
    /\ id' = 0
    /\ UNCHANGED <<inputs, schema, run, prev>>

\* One pass of the loop of compileQuery (lines 309-401) with the stack not
\* empty: the limit, the pop, a keyword skipped or a select compiled.
CompileStep ==
    /\ pc = "loop"
    /\ st # <<>>
    /\ \E ord \in Perms(GetFunctions(schema)) :
         IF LimitReached(id)
         THEN /\ pc' = "done" /\ err' = "selector limit reached (30)"
              /\ qc' = NilQCode /\ st' = st /\ id' = id
         ELSE IF FieldAt(op, FieldOf(Last(st))).Type = "FieldKeyword"
         THEN /\ pc' = pc /\ err' = err /\ qc' = qc /\ st' = Front(st) /\ id' = id
         ELSE \E r \in {compileSelect(schema, op, qc, Front(st), id, ParentOf(Last(st)),
                                      FieldAt(op, FieldOf(Last(st))),
                                      role, registry, dbType, ord)} :
                IF r.err \in Panics
                THEN /\ pc' = "crashed" /\ err' = r.err
                     /\ qc' = NilQCode /\ st' = Front(st) /\ id' = id
                ELSE IF r.err # ""
                THEN /\ pc' = "done" /\ err' = r.err
                     /\ qc' = NilQCode /\ st' = Front(st) /\ id' = id
                ELSE /\ pc' = pc /\ err' = err /\ qc' = r.qc /\ st' = r.st
                     /\ id' = id + 1
    /\ UNCHANGED <<inputs, schema, run, prev>>

\* The end of compileQuery and of Compile (lines 403-407, 273-279): the
\* mutation pass is out of the model and leaves its mark only.
CompileFinish ==
    /\ pc = "loop"
    /\ st = <<>>
    /\ pc' = "done"
    /\ IF id = 0
       THEN /\ err' = "invalid query" /\ qc' = NilQCode
       ELSE /\ err' = ""
            /\ qc' = IF qc.Type = "QTMutation" THEN [qc EXCEPT !.Mutated = TRUE] ELSE qc
    /\ UNCHANGED <<inputs, schema, st, id, run, prev>>

\* The caller compiles the same query, role and schema once more.
Recompile ==
    /\ pc = "done"
    /\ run = 1
    /\ run' = 2
    /\ prev' = [qc |-> qc, err |-> err]
    /\ pc' = "start"
    /\ qc' = NilQCode
    /\ st' = <<>>
    /\ id' = 0
    /\ err' = ""
    /\ UNCHANGED <<inputs, schema>>

Next == NewDBSchema \/ CompileStart \/ CompileStep \/ CompileFinish

NextDet == Next \/ Recompile

\* ------------------------------------------------------------ inputs

Roles == {"anon", "user"}

\* A trval with sub-policy p for queries and nothing set for mutations.
QueryPolicy(p) ==
    [query |-> p, insert |-> OpenPolicy, update |-> OpenPolicy,
     upsert |-> OpenPolicy, delete |-> OpenPolicy]

\* A registry in which every role has trval tr.
Registry(tr) == [r \in Roles |-> tr]

OpenRegistry == Registry(QueryPolicy(OpenPolicy))

\* Baseline filters as compileFilter leaves them: none configured (nil), the
\* empty filter (a no-op node), the constant false, a filter on a column,
\* and a filter on the user of the session.
FilterLeaf(eop, col, type, val) ==
    [newExpOp(eop) EXCEPT !.Col = [NoCol EXCEPT !.Name = col],
                          !.Type = type, !.Val = val]

FNop == newExp

FFalse == newExpOp("OpFalse")

FPlain == FilterLeaf("OpNotEquals", "name", "ValStr", "root")

FUser == FilterLeaf("OpEquals", "id", "ValVar", "user_id")

BaselineFilters ==
    { [fil |-> NilExp, nu |-> FALSE], [fil |-> FNop, nu |-> FALSE],
      [fil |-> FFalse, nu |-> FALSE], [fil |-> FPlain, nu |-> FALSE],
      [fil |-> FUser, nu |-> TRUE] }

\* The kinds of row-yielding and keyword fields the operations are built
\* of.  A select without resolved table (not_related) or on a remote table
\* asks for __typename only.
Kind(name, type, dirs, sub) ==
    [Name |-> name, Type |-> type, Dirs |-> dirs, Sub |-> sub, Args |-> <<>>]

NotRelated == Directive("not_related", <<>>)

FieldKinds ==
    { Kind("users", "FieldPlain", <<>>, <<n_id>>),
      Kind("posts", "FieldPlain", <<>>, <<n_id>>),
      Kind("comments", "FieldPlain", <<>>, <<n_id>>),
      Kind("customers", "FieldPlain", <<>>, <<n_id>>),
      Kind("payments", "FieldPlain", <<>>, <<s_typename>>),
      Kind("admins", "FieldPlain", <<>>, <<n_id>>),
      Kind("admins", "FieldPlain", <<NotRelated>>, <<s_typename>>),
      Kind("logs", "FieldPlain", <<>>, <<n_msg>>),
      Kind("users_cursor", "FieldKeyword", <<>>, <<>>) }

\* The ids of the fields whose parent is field k, in declared order.
ChildrenOf(par, k, n) ==
    SelectSeq([j \in 1..n |-> j - 1], LAMBDA x : par[x + 1] = k)

\* The operation of n fields in which field i - 1 has parent par[i] and
\* kind kind[i].
MkOp(type, n, par, kind) ==
    [Type |-> type,
     Fields |-> [i \in 1..n |->
        Field(i - 1, par[i], kind[i].Name, kind[i].Type, kind[i].Args,
              kind[i].Dirs, ChildrenOf(par, i - 1, n), kind[i].Sub)]]

\* The parent functions of the forests of n fields: as the parser numbers
\* them, a field comes after its parent.
Forests(n) == {par \in [1..n -> -1..(n - 2)] : \A i \in 1..n : par[i] < i - 1}

\* Every operation of up to MaxFields fields of the kinds above.
TreeOps ==
    UNION { {MkOp("OpQuery", n, par, kind) :
                par \in Forests(n), kind \in [1..n -> FieldKinds]}
            : n \in 1..MaxFields }

\* Operations of n fields users, posts, users, ... : nested in one another
\* (chain), all under the first (star), or all roots (flat); a flat one may
\* start with a cursor keyword.
UsersOrPosts(i) ==
    IF i % 2 = 1 THEN Kind("users", "FieldPlain", <<>>, <<n_id>>)
    ELSE Kind("posts", "FieldPlain", <<>>, <<n_id>>)

ChainOps ==
    UNION { { MkOp(t, n, [i \in 1..n |-> i - 2], [i \in 1..n |-> UsersOrPosts(i)]),
              MkOp(t, n, [i \in 1..n |-> IF i = 1 THEN -1 ELSE 0],
                   [i \in 1..n |-> UsersOrPosts(IF i = 1 THEN 1 ELSE 2)]),
              MkOp(t, n, [i \in 1..n |-> -1],
                   [i \in 1..n |-> IF i = 1 /\ t = "OpSub"
                                   THEN Kind("users_cursor", "FieldKeyword", <<>>, <<>>)
                                   ELSE UsersOrPosts(1)]) }
            : n \in 1..MaxChain, t \in {"OpQuery", "OpSub"} }

NoResult == [qc |-> NilQCode, err |-> ""]

\* The state before the schema is built, for the given inputs.
Fresh ==
    /\ schema = NilSchema
    /\ pc = "new"
    /\ qc = NilQCode
    /\ st = <<>>
    /\ id = 0
    /\ err = ""
    /\ run = 1
    /\ prev = NoResult

\* Operations of every shape, compiled for role user with no policy set.
Init ==
    /\ infoTables = InfoTables
    /\ infoFns = <<>>
    /\ filters = <<>>
    /\ op \in TreeOps \cup ChainOps
    /\ role = "user"
    /\ registry = OpenRegistry
    /\ dbType = "postgres"
    /\ Fresh

Spec == Init /\ [][Next]_vars

\* ------------------------------------------------------------ filter inputs

\* The sequences of at most n elements of S.
SeqsUpTo(S, n) == UNION {[1..k -> S] : k \in 0..n}

\* The operation of the single root field name(args) @dirs { sub }.
RootOp(name, args, dirs, sub) ==
    MkOp("OpQuery", 1, <<-1>>,
         << [Kind(name, "FieldPlain", dirs, sub) EXCEPT !.Args = args] >>)

\* @skip(if: $v) and @include(if: $v)
SkipIf == Directive("skip", <<Arg("if", VarNode("v"))>>)

IncludeIf == Directive("include", <<Arg("if", VarNode("v"))>>)

\* The object {col: {opn: val}} of a where argument.
WhereObj(col, opn, val) ==
    Node("NodeObj", "", "",
         << Node("NodeObj", col, "", << [val EXCEPT !.Name = opn] >>) >>)

\* where: {name: {neq: "x"}} and where: {id: {eq: $user_id}}
WherePlain == Arg("where", WhereObj("name", "neq", StrNode("x")))

WhereUser == Arg("where", WhereObj("id", "eq", VarNode("user_id")))

FilterArgs ==
    { Arg("id", NumNode("5")), WherePlain, WhereUser,
      Arg("search", VarNode("q")), Arg("first", NumNode("10")),
      Arg("after", VarNode("cursor")) }

\* The policies of a role for queries: blocked or not, each baseline
\* filter, skipped or not.
Policies ==
    { QueryPolicy(SubPolicy(b, f.fil, f.nu, 0, k)) :
        b \in BOOLEAN, f \in BaselineFilters, k \in BOOLEAN }

\* One root field users with up to MaxArgs arguments and a skip or include
\* directive or none, for each role and each policy.
InitFilter ==
    /\ infoTables = InfoTables
    /\ infoFns = <<>>
    /\ filters = <<>>
    /\ op \in { RootOp("users", a, d, <<n_id>>) :
                  a \in SeqsUpTo(FilterArgs, MaxArgs),
                  d \in {<<>>, <<SkipIf>>, <<IncludeIf>>} }
    /\ role \in Roles
    /\ registry \in {Registry(p) : p \in Policies}
    /\ dbType = "postgres"
    /\ Fresh

SpecFilter == InitFilter /\ [][Next]_vars

\* ------------------------------------------------------------ order inputs

\* The keys an order-by object is made of.
OrderKeys ==
    { [StrNode("asc") EXCEPT !.Name = "name"],
      [StrNode("desc") EXCEPT !.Name = "name"],
      [StrNode("desc") EXCEPT !.Name = "id"] }

\* The order-by objects of up to MaxOrderKeys keys.
OrderObjs ==
    { Node("NodeObj", "", "", ks) : ks \in SeqsUpTo(OrderKeys, MaxOrderKeys) \ {<<>>} }

OrderArgs ==
    { Arg("order_by", o) : o \in OrderObjs }
    \cup { Arg("orderby", Node("NodeObj", "", "", <<[StrNode("desc") EXCEPT !.Name = "name"]>>)),
           Arg("order", Node("NodeObj", "", "", <<[StrNode("asc") EXCEPT !.Name = "id"]>>)) }

PagingArgs ==
    { Arg("first", NumNode("10")), Arg("last", NumNode("5")),
      Arg("after", VarNode("cursor")), Arg("before", VarNode("cursor")),
      Arg("distinct_on", StrNode("name")), Arg("id", NumNode("1")) }

\* One root field on users, or on logs, which has no primary key, with up to
\* MaxArgs order-by and paging arguments, for each dialect.
InitOrder ==
    /\ infoTables = InfoTables
    /\ infoFns = <<>>
    /\ filters = <<>>
    /\ op \in { RootOp("users", a, <<>>, <<n_id>>) :
                  a \in SeqsUpTo(OrderArgs \cup PagingArgs, MaxArgs) }
            \cup { RootOp("logs", a, <<>>, <<n_msg>>) :
                     a \in SeqsUpTo(PagingArgs, MaxArgs) }
    /\ role = "user"
    /\ registry = OpenRegistry
    /\ dbType \in {"postgres", "mysql"}
    /\ Fresh

SpecOrder == InitOrder /\ [][Next]_vars

\* ------------------------------------------------------------ function inputs

\* sdata.DBFunction of the catalogue: its name and its number of parameters
DBFunction(name, n) == [Name |-> name, NParams |-> n]

Catalogues ==
    { <<>>, <<DBFunction(f_now, 0)>>, <<DBFunction(f_get, 2)>>,
      <<DBFunction(f_get, 1)>>,
      <<DBFunction(f_get, 1), DBFunction(f_get_full, 1)>> }

LeafNames == {n_id, n_name, n_count_id, n_max_views, n_get_full_name, s_typename}

\* One root field users with up to MaxLeaves leaves, compiled twice, for
\* each catalogue of functions.
InitDet ==
    /\ infoTables = InfoTables
    /\ infoFns \in Catalogues
    /\ filters = <<>>
    /\ op \in {RootOp("users", <<>>, <<>>, l) : l \in SeqsUpTo(LeafNames, MaxLeaves)}
    /\ role \in Roles
    /\ registry = OpenRegistry
    /\ dbType = "postgres"
    /\ Fresh

SpecDet == InitDet /\ [][NextDet]_vars

\* ------------------------------------------------------------ properties
\* What Compile has returned: pc = "done" with err = "" is a successful
\* Compile and qc its QCode.

Returned == pc = "done" /\ err = ""

\* The row-yielding fields of an operation: all but the cursor keywords.
RowFields(o) == {i \in 1..Len(o.Fields) : o.Fields[i].Type # "FieldKeyword"}

\* C1: in the QCode of a successful Compile the ids are dense
\* (Selects[i].ID = i), and every select with a parent has a parent id
\* below its own and is listed in the Children of the parent select.
C1_ParentLinks ==
    Returned =>
        \A i \in 1..Len(qc.Selects) :
            /\ qc.Selects[i].ID = i - 1
            /\ qc.Selects[i].ParentID # -1 =>
                 /\ qc.Selects[i].ParentID >= 0
                 /\ qc.Selects[i].ParentID < qc.Selects[i].ID
                 /\ qc.Selects[i].ID \in
                      Range(qc.Selects[qc.Selects[i].ParentID + 1].Children)

\* A successful Compile of an operation with a cursor keyword among its
\* fields and a select nested in another, the selects not in declared order.
C1_Witness ==
    /\ Returned
    /\ \E i \in 1..Len(op.Fields) : op.Fields[i].Type = "FieldKeyword"
    /\ \E i \in 1..Len(qc.Selects) : qc.Selects[i].ParentID # -1
    /\ \E i \in 1..Len(qc.Selects) :
         qc.Selects[i].FieldName # op.Fields[i].Name

\* C2: a successful Compile returns at most 30 selects, and an operation of
\* more than 30 row-yielding users/posts fields (nested in one another, under
\* one root, or all roots) ends with the error "selector limit reached (30)".
C2_SelectorLimit ==
    /\ Returned => Len(qc.Selects) <= maxSelectors
    /\ (pc = "done" /\ Cardinality(RowFields(op)) > maxSelectors) =>
           /\ err = "selector limit reached (30)"
           /\ qc = NilQCode

\* The compile of 31 fields nested in one another has ended on the limit.
C2_Witness ==
    /\ pc = "done"
    /\ err = "selector limit reached (30)"
    /\ Len(op.Fields) = maxSelectors + 1
    /\ \A i \in 2..Len(op.Fields) : op.Fields[i].ParentID = i - 2
    /\ id = maxSelectors

\* C5: in the QCode of a successful Compile, Remotes is the number of
\* selects whose relationship is remote, and each of them has empty Joins.
C5_RemoteNoJoins ==
    Returned =>
        /\ qc.Remotes = Cardinality({i \in 1..Len(qc.Selects) :
                                       qc.Selects[i].Rel.Type = RelRemote})
        /\ \A i \in 1..Len(qc.Selects) :
             qc.Selects[i].Rel.Type = RelRemote => qc.Selects[i].Joins = <<>>

\* C9: a successful Compile has no root field on a blocked table, and each
\* of its root selects has a resolved table that is not blocked.
C9_BlockedRootFails ==
    Returned =>
        /\ \A i \in RowFields(op) :
             op.Fields[i].ParentID = -1 => ~Find(schema, op.Fields[i].Name).Blocked
        /\ \A i \in 1..Len(qc.Selects) :
             qc.Selects[i].ParentID = -1 =>
                 /\ qc.Selects[i].Table # ""
                 /\ ~qc.Selects[i].Ti.Blocked

\* The single root field of the operations of SpecFilter, SpecOrder and
\* SpecDet, its select, and the query policy the registry has for the role.
RootField == op.Fields[1]

RootSelect == qc.Selects[1]

Baseline == registry[role].query

\* The expression of a where argument of FilterArgs.
WhereLeaf(a) ==
    IF a = WherePlain
    THEN [newExpOp("OpNotEquals") EXCEPT
            !.Col = Column("users", "name"), !.Type = "ValStr", !.Val = "x"]
    ELSE [newExpOp("OpEquals") EXCEPT
            !.Col = PKColumn("users", "id"), !.Type = "ValVar", !.Val = "user_id"]

\* The field carries a single where argument and nothing else.
OnlyWhere ==
    /\ Len(RootField.Args) = 1
    /\ RootField.Args[1].Name = "where"
    /\ RootField.Directives = <<>>

AndOf(f, w) == [newExpOp("OpAnd") EXCEPT !.Children = <<f, w>>]

RECURSIVE Leaves(_)
Leaves(e) ==
    IF e.Children = <<>> THEN {e}
    ELSE UNION {Leaves(e.Children[i]) : i \in 1..Len(e.Children)}

DirectiveLeaf(eop) == [newExpOp(eop) EXCEPT !.Type = "ValVar", !.Val = "v"]

\* C8: the final Where of a field with @skip(if: $v) holds the leaf
\* op_neq_true on v, and that of a field with @include(if: $v) the leaf
\* op_eq_true on v, whatever arguments the field carries and whatever the
\* baseline filter of the role.
C8_DirectiveLeafKept ==
    Returned =>
        /\ RootField.Directives = <<SkipIf>> =>
             DirectiveLeaf("OpNotEqualsTrue") \in Leaves(RootSelect.Where)
        /\ RootField.Directives = <<IncludeIf>> =>
             DirectiveLeaf("OpEqualsTrue") \in Leaves(RootSelect.Where)

\* C10: SkipRender is user-needed only if the policy skips the operation or
\* the role is anon and the user where or the baseline filter needs the
\* user; under anon a baseline filter that needs the user makes it
\* user-needed; under another role without skip in the policy it is none.
C10_SkipRender ==
    Returned =>
        /\ RootSelect.SkipRender = "SkipTypeUserNeeded" =>
             \/ Baseline.skip
             \/ /\ role = "anon"
                /\ \/ Baseline.filNU
                   \/ \E i \in 1..Len(RootField.Args) : RootField.Args[i] = WhereUser
        /\ (role = "anon" /\ Baseline.filNU) =>
             RootSelect.SkipRender = "SkipTypeUserNeeded"
        /\ (role # "anon" /\ ~Baseline.skip) =>
             RootSelect.SkipRender = "SkipTypeNone"

\* Role anon under a baseline filter that needs the user, not skipped by
\* the policy: the select is compiled and not rendered.
C10_Witness ==
    /\ Returned
    /\ role = "anon"
    /\ Baseline.filNU
    /\ ~Baseline.skip
    /\ RootSelect.SkipRender = "SkipTypeUserNeeded"

\* C4: a compiled select with Paging.Cursor set has a non-empty OrderBy
\* whose last entry is the primary key column of its table.
C4_CursorTieBreaker ==
    Returned =>
        \A i \in 1..Len(qc.Selects) :
            qc.Selects[i].Paging.Cursor =>
                /\ qc.Selects[i].OrderBy # <<>>
                /\ Last(qc.Selects[i].OrderBy).Col = qc.Selects[i].Ti.PrimaryCol
                /\ Last(qc.Selects[i].OrderBy).Col.PrimaryKey

\* A cursor over an order the arguments gave: the tie-breaker comes after it.
C4_Witness ==
    /\ Returned
    /\ RootSelect.Paging.Cursor
    /\ RootSelect.Paging.Type # "PTOffset"
    /\ Len(RootSelect.OrderBy) >= 2
    /\ RootSelect.OrderBy[1].Col.Name = "name"

\* C7: a select whose order-by arguments name a column more than once, in
\* one object or across arguments, fails with "duplicate column in order
\* by: NAME".
C7_DuplicateOrderBy ==
    ( /\ pc = "done"
      /\ \A i \in 1..Len(RootField.Args) :
           RootField.Args[i].Name \in {"order_by", "orderby", "order"}
      /\ \E i, j \in 1..Len(RootField.Args) :
           \E k \in 1..Len(RootField.Args[i].Val.Children) :
             \E l \in 1..Len(RootField.Args[j].Val.Children) :
               /\ <<i, k>> # <<j, l>>
               /\ RootField.Args[i].Val.Children[k].Name =
                    RootField.Args[j].Val.Children[l].Name )
    => err \in {"duplicate column in order by: name",
                "duplicate column in order by: id"}

MutationArgs ==
    { Arg("delete", BoolNode("false")), Arg("delete", BoolNode("true")),
      Arg("delete", NumNode("1")), Arg("insert", VarNode("data")),
      Arg("insert", NumNode("1")), Arg("update", VarNode("data")),
      Arg("upsert", VarNode("data")), Arg("id", NumNode("5")), WherePlain }

\* A trval whose query family and delete family each block or not and
\* filter or not, the other families open.
FamilyPolicies ==
    { [QueryPolicy(SubPolicy(bq, fq, FALSE, 0, FALSE)) EXCEPT
          !.delete = SubPolicy(bd, fd, FALSE, 0, FALSE)] :
        bq \in BOOLEAN, bd \in BOOLEAN,
        fq \in {NilExp, FPlain}, fd \in {NilExp, FUser} }

\* One root field users with up to MaxArgs arguments, sent as a mutation or
\* as a query, for each role and each pair of family policies.
InitMutation ==
    /\ infoTables = InfoTables
    /\ infoFns = <<>>
    /\ filters = <<>>
    /\ op \in { [RootOp("users", a, <<>>, <<n_id>>) EXCEPT !.Type = t] :
                  a \in SeqsUpTo(MutationArgs, MaxArgs),
                  t \in {"OpMutate", "OpQuery"} }
    /\ role \in Roles
    /\ registry \in {Registry(p) : p \in FamilyPolicies}
    /\ dbType = "postgres"
    /\ Fresh

SpecMutation == InitMutation /\ [][Next]_vars

\* The operation is a mutation whose root field carries delete: false as
\* the argument that names the kind of mutation.
DeleteFalse ==
    /\ op.Type = "OpMutate"
    /\ RootField.Args # <<>>
    /\ RootField.Args[1] = Arg("delete", BoolNode("false"))

\* The part of C11 on the kind: a mutation with delete: false returns a
\* QCode of Type query on which the mutation pass has not run.
DeleteFalseIsQuery ==
    (Returned /\ DeleteFalse) => (qc.Type = "QTQuery" /\ ~qc.Mutated)

\* C11: a mutation whose root field carries delete: false is compiled as a
\* plain query under the query-family policy of the role: it fails exactly
\* when the query family is blocked, and a QCode it returns has Type query,
\* has not been through the mutation pass, and holds the baseline filter of
\* the query family and not that of the delete family.
C11_DeleteFalseQueryPolicy ==
    (pc = "done" /\ DeleteFalse) =>
        IF registry[role].query.block THEN err # ""
        ELSE /\ err = ""
             /\ qc.Type = "QTQuery"
             /\ ~qc.Mutated
             /\ registry[role].query.fil # NilExp =>
                    registry[role].query.fil \in Leaves(RootSelect.Where)
             /\ registry[role].delete.fil # NilExp =>
                    registry[role].delete.fil \notin Leaves(RootSelect.Where)

\* ------------------------------------------------------------ schema construction

\* The names under which the functions of one parameter of the catalogue are
\* to be found: lower-cased.
UnaryNames ==
    {ToLower(infoFns[i].Name) :
       i \in {j \in 1..Len(infoFns) : infoFns[j].NParams = 1}}

\* NewDBSchema has ended in a panic: the schema was never built.
SchemaCrashed == pc = "crashed" /\ schema = NilSchema

\* C12: for every catalogue NewDBSchema completes and never crashes, and the
\* schema it returns gives as GetFunctions exactly the functions of the
\* catalogue that have one parameter, under their lower-cased names.
C12_UnaryFunctionsRegistered ==
    /\ ~SchemaCrashed
    /\ pc \notin {"new", "failed", "crashed"} => GetFunctions(schema) = UnaryNames

\* ------------------------------------------------------------ cursor seek

\* Order-by keys over the columns name and full_name of users, in each of the
\* six directions.
SeekKeys ==
    { [StrNode(d) EXCEPT !.Name = c] :
        c \in {"name", "full_name"},
        d \in {"asc", "desc", "asc_nulls_first", "desc_nulls_first",
               "asc_nulls_last", "desc_nulls_last"} }

\* One root field users with an order_by object of up to MaxOrderKeys keys,
\* a where or none, and one or two of first, last, after, before.
InitSeek ==
    /\ infoTables = InfoTables
    /\ infoFns = <<>>
    /\ filters = <<>>
    /\ op \in { RootOp("users",
                       <<Arg("order_by", Node("NodeObj", "", "", ks))>> \o w \o p,
                       <<>>, <<n_id>>) :
                  ks \in SeqsUpTo(SeekKeys, MaxOrderKeys) \ {<<>>},
                  w \in {<<>>, <<WherePlain>>},
                  p \in SeqsUpTo({ Arg("first", NumNode("10")),
                                   Arg("last", NumNode("5")),
                                   Arg("after", VarNode("cursor")),
                                   Arg("before", VarNode("cursor")) }, 2) \ {<<>>} }
    /\ role = "user"
    /\ registry = OpenRegistry
    /\ dbType = "postgres"
    /\ Fresh

SpecSeek == InitSeek /\ [][Next]_vars

\* An expression without the values of its leaves: operator, value type,
\* table alias, column and children.
RECURSIVE Shape(_)
Shape(e) ==
    [Op |-> e.Op, Type |-> e.Type, Table |-> e.Table, Col |-> e.Col,
     Children |-> [i \in 1..Len(e.Children) |-> Shape(e.Children[i])]]

\* A reference to column col of the cursor row under operator opn, and a
\* node opn over children.
CurRef(opn, col) ==
    [Op |-> opn, Type |-> "ValRef", Table |-> "__cur", Col |-> col,
     Children |-> <<>>]

ShapeOver(opn, children) ==
    [Op |-> opn, Type |-> "", Table |-> "", Col |-> NoCol, Children |-> children]

\* The comparison of an order-by entry: greater-than for the ascending
\* directions, lesser-than for the descending ones.
SeekCmp(ob) ==
    IF ob.Order \in {"OrderDesc", "OrderDescNullsFirst", "OrderDescNullsLast"}
    THEN "OpLesserThan" ELSE "OpGreaterThan"

\* The seek predicate over the order-by entries ob = (c1, ..., cn): OR of
\* c1 is null, c1 |> cur.c1, and for each i in 2..n the AND of the equalities
\* on c1..c(i-1) and ci |> cur.ci.
SeekShape(ob) ==
    ShapeOver("OpOr",
        << CurRef("OpIsNull", ob[1].Col), CurRef(SeekCmp(ob[1]), ob[1].Col) >>
        \o [i \in 1..(Len(ob) - 1) |->
              ShapeOver("OpAnd",
                  [k \in 1..(i + 1) |->
                     IF k <= i THEN CurRef("OpEquals", ob[k].Col)
                     ELSE CurRef(SeekCmp(ob[k]), ob[k].Col)])])

\* The select pages by cursor, forward or backward.
SeekPaged ==
    /\ Returned
    /\ RootSelect.Paging.Cursor
    /\ RootSelect.Paging.Type \in {"PTForward", "PTBackward"}

\* C13: the Where of a select paged by cursor, forward or backward, with
\* order-by entries (c1, ..., cn) is the seek predicate over them -- an OR of
\* the is-null leaf on c1, the leaf c1 |> cur.c1 and the AND nodes of
\* equalities on c1..c(i-1) followed by ci |> cur.ci, every leaf a reference
\* to the alias __cur, |> greater-than for asc, asc_nulls_first and
\* asc_nulls_last and lesser-than for desc, desc_nulls_first and
\* desc_nulls_last -- ANDed with the Where the arguments left.
C13_SeekPredicate ==
    SeekPaged =>
        Shape(RootSelect.Where) =
            IF \E i \in 1..Len(RootField.Args) : RootField.Args[i] = WherePlain
            THEN ShapeOver("OpAnd", << SeekShape(RootSelect.OrderBy),
                                       Shape(WhereLeaf(WherePlain)) >>)
            ELSE SeekShape(RootSelect.OrderBy)

\* The same for orders whose directions are asc and desc only.
SeekPredicatePlainOrders ==
    ( /\ SeekPaged
      /\ \A i \in 1..Len(RootSelect.OrderBy) :
           RootSelect.OrderBy[i].Order \in {"OrderAsc", "OrderDesc"} )
    => C13_SeekPredicate

\* ------------------------------------------------------------ order of order-by

\* The keys of the order_by object of the root field, as declared, each as
\* its column name and direction.
DeclaredOrder ==
    [i \in 1..Len(RootField.Args[1].Val.Children) |->
        << RootField.Args[1].Val.Children[i].Name,
           OrderOf(RootField.Args[1].Val.Children[i].Val) >>]

\* The first n entries of the OrderBy of the root select, each as its column
\* name and direction.
CompiledOrder(n) ==
    [i \in 1..n |-> << RootSelect.OrderBy[i].Col.Name, RootSelect.OrderBy[i].Order >>]

\* The root field's first argument is its only order-by argument.
OrderedOnce ==
    /\ Returned
    /\ RootField.Args[1].Name \in {"order_by", "orderby", "order"}
    /\ \A i \in 2..Len(RootField.Args) :
         RootField.Args[i].Name \notin {"order_by", "orderby", "order"}

\* C14, in the order the code keeps: for an order_by object with keys
\* declared k1, ..., kn the entries appended to OrderBy are in the declared
\* order k1, ..., kn -- the stack hands the keys out last to first and the
\* closing loop appends them last to first again -- whatever comes after
\* them, and with no dependence on an iteration order.
C14_DeclaredOrderKept ==
    OrderedOnce =>
        /\ Len(RootSelect.OrderBy) >= Len(DeclaredOrder)
        /\ CompiledOrder(Len(DeclaredOrder)) = DeclaredOrder

\* C14, in the order the specification names: the entries appended to
\* OrderBy are in the reverse of the declared order, kn, ..., k1.
C14_ReverseOfDeclared ==
    OrderedOnce =>
        /\ Len(RootSelect.OrderBy) >= Len(DeclaredOrder)
        /\ CompiledOrder(Len(DeclaredOrder)) = Reverse(DeclaredOrder)

\* An order_by object of two keys on different columns has been compiled.
C14_Witness ==
    /\ OrderedOnce
    /\ Len(DeclaredOrder) = 2
    /\ DeclaredOrder[1][1] # DeclaredOrder[2][1]
    /\ Len(RootSelect.OrderBy) = 3

\* ------------------------------------------------------------ foreign keys

\* A catalogue of three tables -- public.users, audit.users and
\* public.accounts -- in which public.users has the foreign key ref_id onto
\* column fcol of table ft of schema fs ("" for none named), and the columns
\* code are unique keys or not.
RelTables(fs, ft, fcol, uq) ==
    << [NoTable EXCEPT !.Name = "users", !.Schema = "public", !.Type = "table",
          !.Columns = << PKColumn("users", "id"),
                         [Column("users", "code") EXCEPT !.UniqueKey = uq],
                         [FKColumn("users", "ref_id", ft, fcol) EXCEPT
                             !.FKeySchema = fs] >>,
          !.PrimaryCol = PKColumn("users", "id")],
       [NoTable EXCEPT !.Name = "users", !.Schema = "audit", !.Type = "table",
          !.Columns = << [PKColumn("users", "id") EXCEPT !.Schema = "audit"],
                         [Column("users", "code") EXCEPT
                             !.Schema = "audit", !.UniqueKey = uq] >>,
          !.PrimaryCol = [PKColumn("users", "id") EXCEPT !.Schema = "audit"]],
       [NoTable EXCEPT !.Name = "accounts", !.Schema = "public", !.Type = "table",
          !.Columns = << PKColumn("accounts", "id"),
                         [Column("accounts", "code") EXCEPT !.UniqueKey = uq] >>,
          !.PrimaryCol = PKColumn("accounts", "id")] >>

RelCatalogues ==
    { RelTables(fs, ft, fcol, uq) :
        fs \in {"", "public", "audit"}, ft \in {"users", "accounts"},
        fcol \in {"id", "code", "", "nope"}, uq \in BOOLEAN }

\* Each catalogue, and over its schema a query on accounts with one paging
\* argument or none, for each role.
InitRels ==
    /\ infoTables \in RelCatalogues
    /\ infoFns = <<>>
    /\ filters = <<>>
    /\ op \in { RootOp("accounts", a, <<>>, <<n_id>>) :
                  a \in SeqsUpTo({Arg("id", NumNode("5")),
                                  Arg("first", NumNode("10"))}, 1) }
    /\ role \in Roles
    /\ registry = OpenRegistry
    /\ dbType = "postgres"
    /\ Fresh

SpecRels == InitRels /\ [][Next]_vars

\* NewDBSchema has returned a schema.
SchemaBuilt == pc \notin {"new", "failed", "crashed"}

\* The foreign keys of the catalogue with a target column named, as
\* <<table index, column index>>.
ForeignKeys ==
    {p \in UNION {{<<i, j>> : j \in 1..Len(infoTables[i].Columns)} :
                    i \in 1..Len(infoTables)} :
        /\ infoTables[p[1]].Columns[p[2]].FKeyTable # ""
        /\ infoTables[p[1]].Columns[p[2]].FKeyCol # ""}

\* The types of the edges of the graph that leave table t by column c.
RelTypesOf(t, c) ==
    {e.Type : e \in {x \in schema.edges : x.LT = t /\ x.LC.Name = c.Name}}

\* The target table and target column of foreign key c of table t.
TargetTable(t, c) ==
    Indexed(schema, IF c.FKeySchema = "" THEN t.Schema ELSE c.FKeySchema,
            c.FKeyTable)

\* The type the relationship of foreign key c of table t is to have:
\* recursive if and only if the target table is t itself, by schema and
\* name, else one-to-one onto a unique key, else one-to-many.
RelTypeWanted(t, c) ==
    IF TargetTable(t, c).Schema = t.Schema /\ TargetTable(t, c).Name = t.Name
    THEN RelRecursive
    ELSE IF GetColumn(TargetTable(t, c), c.FKeyCol).UniqueKey THEN RelOneToOne
    ELSE RelOneToMany

\* C15: the relationship put into the graph for a foreign key with a
\* resolved target is recursive if and only if the target table is the
\* column's own table, same schema and same name, otherwise one-to-one if
\* the target column is a unique key, otherwise one-to-many; a foreign key
\* onto a table of the same name in another schema is not recursive.
C15_RelClassification ==
    SchemaBuilt =>
        \A p \in ForeignKeys :
            RelTypesOf(infoTables[p[1]], infoTables[p[1]].Columns[p[2]])
              = {RelTypeWanted(infoTables[p[1]], infoTables[p[1]].Columns[p[2]])}

\* The same for the foreign keys that do not point at a table of the name
\* of their own table in another schema.
RelClassificationOneSchema ==
    (\A p \in ForeignKeys :
        \/ infoTables[p[1]].Columns[p[2]].FKeyTable # infoTables[p[1]].Name
        \/ infoTables[p[1]].Columns[p[2]].FKeySchema \in {"", infoTables[p[1]].Schema})
    => C15_RelClassification

\* ------------------------------------------------------------ built-in functions

\* The built-in function prefixes.
BuiltinPrefixes ==
    { <<"a", "v", "g", "_">>, <<"c", "o", "u", "n", "t", "_">>,
      <<"m", "a", "x", "_">>, <<"m", "i", "n", "_">>, <<"s", "u", "m", "_">>,
      <<"s", "t", "d", "d", "e", "v", "_">>,
      <<"s", "t", "d", "d", "e", "v", "_", "p", "o", "p", "_">>,
      <<"s", "t", "d", "d", "e", "v", "_", "s", "a", "m", "p", "_">>,
      <<"v", "a", "r", "i", "a", "n", "c", "e", "_">>,
      <<"v", "a", "r", "_", "p", "o", "p", "_">>,
      <<"v", "a", "r", "_", "s", "a", "m", "p", "_">> }

\* One root field users whose last leaf is a built-in prefix followed by the
\* column id or name, alone or after the leaf id, for each role and dialect.
InitFuncs ==
    /\ infoTables = InfoTables
    /\ infoFns = <<>>
    /\ filters = <<>>
    /\ op \in { RootOp("users", <<>>, <<>>, l \o <<p \o x>>) :
                  l \in {<<>>, <<n_id>>}, p \in BuiltinPrefixes,
                  x \in {n_id, n_name} }
    /\ role \in Roles
    /\ registry = OpenRegistry
    /\ dbType \in {"postgres", "mysql"}
    /\ Fresh

SpecFuncs == InitFuncs /\ [][Next]_vars

\* The last leaf of the root field, the longest built-in prefix it starts
\* with, and what follows that prefix.
FuncLeaf == Last(RootField.Sub)

LongestPrefix ==
    CHOOSE p \in BuiltinPrefixes :
        /\ HasPrefix(FuncLeaf, p)
        /\ \A q \in BuiltinPrefixes : HasPrefix(FuncLeaf, q) => Len(q) <= Len(p)

Remainder == SliceFrom(FuncLeaf, Len(LongestPrefix))

\* C16: a sub-field named by a built-in prefix p followed by X is compiled
\* as the aggregate function named p without its trailing underscore over
\* X, the longest listed prefix winning: stddev_pop_X is stddev_pop over X
\* and stddev_samp_X is stddev_samp over X.
C16_LongestPrefixWins ==
    (pc = "done" /\ (\E p \in BuiltinPrefixes : HasPrefix(FuncLeaf, p))) =>
        /\ err = ""
        /\ Len(RootSelect.Funcs) = 1
        /\ RootSelect.Funcs[1].Name = Front(LongestPrefix)
        /\ RootSelect.Funcs[1].Col.Name = NameOf(Remainder)

\* The same for the leaves that start with one listed prefix only.
OnePrefixWins ==
    (Cardinality({p \in BuiltinPrefixes : HasPrefix(FuncLeaf, p)}) = 1)
    => C16_LongestPrefixWins

\* ------------------------------------------------------------ cross-table aggregates

\* The leaf count__TABLE and the leaf count__TABLE__COLUMN.
s_count__ == <<"c", "o", "u", "n", "t", "_", "_">>

s__ == <<"_", "_">>

\* One root field users or posts whose last leaf counts over a table of the
\* catalogue, or over a column id or name of it, alone or after the leaf id,
\* for each role.
InitAgg ==
    /\ infoTables = InfoTables
    /\ infoFns = <<>>
    /\ filters = <<>>
    /\ op \in { RootOp(r, <<>>, <<>>, l \o <<s_count__ \o Chars[t] \o c>>) :
                  r \in {"users", "posts"}, l \in {<<>>, <<n_id>>},
                  t \in {InfoTables[i].Name : i \in 1..Len(InfoTables)},
                  c \in {<<>>, s__ \o n_id, s__ \o n_name} }
    /\ role \in Roles
    /\ registry = OpenRegistry
    /\ dbType = "postgres"
    /\ Fresh

SpecAgg == InitAgg /\ [][Next]_vars

\* The table the last leaf of the root field aggregates over.
AggTable == NameOf(Split(SliceFrom(FuncLeaf, Len(s_count__)))[1])

\* That table is in the schema and no path leads from it to the table of
\* the root field.
AggUnreachable ==
    /\ schema # NilSchema
    /\ HasPrefix(FuncLeaf, s_count__)
    /\ FindOk(schema, AggTable)
    /\ FindPath(schema, AggTable, RootField.Name) = <<>>

\* C17: a cross-table aggregate over a table of the schema from which no
\* relationship path leads to the table of the enclosing select ends the
\* compile with an error returned to the caller: no crash, and no QCode.
C17_UnreachableAggregateFails ==
    (pc \in {"done", "crashed"} /\ AggUnreachable) =>
        (pc = "done" /\ err # "" /\ qc = NilQCode)

\* With a path, the compile does not crash and a QCode it returns holds the
\* synthetic select with its relationship.
ReachableAggregateRelated ==
    (pc \in {"done", "crashed"} /\ HasPrefix(FuncLeaf, s_count__)
       /\ ~AggUnreachable) =>
        /\ pc = "done"
        /\ err = "" =>
             /\ Len(RootSelect.Funcs) = 1
             /\ RootSelect.Funcs[1].Sel # <<>>
             /\ RootSelect.Funcs[1].Sel[1].Rel.Type # RelNone

\* ------------------------------------------------------------ role filters

\* A filter string of the role configuration, with the node
\* graph.ParseArgValue reads from it.
FilterString(text, node) == [text |-> text, node |-> node]

ParseArgValue(v) == v.node

\* Compiler.compileArgNode on the node of a filter: the expression, whether
\* it needs the user, and the error.
compileArgNode(ti, node) == compileArgObj(ti, Arg("where", node))

\* The loop of compileFilter, lines 1126-1155: filter holds the strings still
\* to come, fl the expression and needsUser the flag so far.
RECURSIVE filterLoop(_, _, _, _)
filterLoop(ti, filter, fl, needsUser) ==
    IF filter = <<>> THEN [fil |-> fl, nu |-> needsUser, err |-> ""]
    ELSE IF Head(filter).text = "false"
    THEN [fil |-> newExpOp("OpFalse"), nu |-> FALSE, err |-> ""]
    ELSE \* lines 1136-1154 on what compileArgNode returns
         LET r == compileArgNode(ti, ParseArgValue(Head(filter)))
         IN  IF r.err # "" THEN [fil |-> NilExp, nu |-> FALSE, err |-> r.err]
             ELSE filterLoop(ti, Tail(filter),
                             IF fl = NilExp THEN r.ex
                             ELSE [newExpOp("OpAnd") EXCEPT !.Children = <<r.ex>>],
                             needsUser \/ r.nu)

\* compileFilter: the baseline filter of a list of filter strings, whether
\* it needs the user, and the error.
compileFilter(ti, filter) ==
    IF Len(filter) = 0 THEN [fil |-> newExp, nu |-> FALSE, err |-> ""]
    ELSE filterLoop(ti, filter, NilExp, FALSE)

\* The role configuration is loaded into the compiler that has its schema:
\* the filter strings of the queries on users are compiled into the
\* baseline filter of every role, or the load fails.
AddRole ==
    /\ pc = "start"
    /\ registry = OpenRegistry
    /\ \E r \in {compileFilter(Find(schema, "users"), filters)} :
         IF r.err # ""
         THEN /\ pc' = "failed" /\ err' = r.err /\ registry' = registry
         ELSE /\ pc' = pc /\ err' = err
              /\ registry' = Registry(QueryPolicy(SubPolicy(FALSE, r.fil, r.nu, 0, FALSE)))
    /\ UNCHANGED <<infoTables, infoFns, filters, op, role, dbType, schema, qc, st,
                   id, run, prev>>

NextRole == Next \/ AddRole

\* The filter strings: the literal false, filters on columns of users, one
\* of them on the user of the session, and one on a column users has not.
FilterStrings ==
    { FilterString("false", BoolNode("false")),
      FilterString("{ name: { neq: \"root\" } }", WhereObj("name", "neq", StrNode("root"))),
      FilterString("{ full_name: { neq: \"x\" } }", WhereObj("full_name", "neq", StrNode("x"))),
      FilterString("{ id: { eq: $user_id } }", WhereObj("id", "eq", VarNode("user_id"))),
      FilterString("{ age: { gt: 18 } }", WhereObj("age", "gt", NumNode("18"))) }

\* Each list of up to MaxFilters filter strings, and a query on users with
\* a where or none, for each role.
InitRole ==
    /\ infoTables = InfoTables
    /\ infoFns = <<>>
    /\ filters \in SeqsUpTo(FilterStrings, MaxFilters)
    /\ op \in { RootOp("users", a, <<>>, <<n_id>>) : a \in {<<>>, <<WherePlain>>} }
    /\ role \in Roles
    /\ registry = OpenRegistry
    /\ dbType = "postgres"
    /\ Fresh

SpecRole == InitRole /\ [][NextRole]_vars

\* The role has been loaded with a list of two or more filter strings, none
\* of them the literal false.
SeveralFilters ==
    /\ registry # OpenRegistry
    /\ Len(filters) >= 2
    /\ \A i \in 1..Len(filters) : filters[i].text # "false"

\* What the i-th filter string compiles to on its own.
FilterAt(i) == compileArgNode(Find(schema, "users"), ParseArgValue(filters[i]))

\* The part of C18 on the user: the baseline filter needs the user if and
\* only if one of the filters does.
NeedsUserIfAny ==
    SeveralFilters =>
        (registry[role].query.filNU <=> \E i \in 1..Len(filters) : FilterAt(i).nu)

\* C18: the baseline filter compiled from a list of n >= 2 filter strings,
\* none of them the literal false, is the conjunction of all n compiled
\* filters -- an AND node under which each of them appears, none dropped --
\* and it needs the user if and only if at least one of them does.
C18_AllFiltersConjoined ==
    SeveralFilters =>
        /\ registry[role].query.fil.Op = "OpAnd"
        /\ \A i \in 1..Len(filters) :
             FilterAt(i).ex \in Leaves(registry[role].query.fil)
        /\ registry[role].query.filNU <=> \E i \in 1..Len(filters) : FilterAt(i).nu

====
